---- MODULE Spec2Model ----
(***************************************************************************)
(* Model of the authenticated photo-analysis pipeline of hse-inspector.     *)
(*                                                                         *)
(* Three React screens are modelled, each as the state its hooks hold plus  *)
(* the position of every asynchronous handler that is suspended at an       *)
(* await:                                                                   *)
(*   - AnalyzePhotoScreen  (src/src/components/AnalyzePhotoScreen.tsx)      *)
(*   - InspectionsScreen   (src/src/app/(protected)/(tabs)/index.tsx)       *)
(*   - InspectionScreen    (src/src/app/(protected)/inspection/[id].tsx)    *)
(* JavaScript runs each handler to its next await without interleaving, so  *)
(* one action is the code between two suspension points.                    *)
(***************************************************************************)
EXTENDS Integers, Sequences, FiniteSets, TLC

(***************************************************************************)
(* Bounds of the model.                                                     *)
(***************************************************************************)
\* activation records of analyze() that may be suspended at the same time
MaxRuns == 2
\* activation records of fetchRecent() that may be suspended at the same time
MaxRefresh == 2
\* activation records of fetchInspections() that may be suspended at the same time
MaxFetch == 2
\* activation records of the capture and pick handlers that may be suspended
\* at the same time
MaxAcq == 2

Runs == 1..MaxRuns
Acqs == 1..MaxAcq
Refreshes == 1..MaxRefresh
Fetches == 1..MaxFetch

(***************************************************************************)
(* Values.                                                                  *)
(***************************************************************************)
Null == "null"

\* what Clerk's session.getToken() may do: resolve to a token, resolve to
\* null, or reject
Tokens == {"tok"}
TokenOutcomes == Tokens \cup {Null, "throw"}

\* a base64 payload: the picture it encodes and its length in characters
NoB64 == [src |-> Null, len |-> 0]
\* JavaScript truthiness of a string | null
Truthy(b64) == b64.len > 0

\* statuses other than 200 that the upload, analyze and list endpoints answer with
UploadStatuses == {401, 413, 500}
AnalyzeStatuses == {401, 500}
ListStatuses == {401, 500}
\* Response.ok
RespOk(status) == status >= 200 /\ status <= 299

\* messages of the errors the screens throw and show
ErrAuthRequired == "Authentication required. Please ensure you're logged in with Clerk."
ErrAuthFailed == "Authentication failed. Please sign in again."
ErrTooLarge == "Image too large for server. Please try a smaller photo."
ErrMissingUrl == "Upload response missing URL."
ErrUnexpectedAnalyze == "Unexpected analyze response"
\* message of the rejection of Response.json() / JSON.parse on a body that is
\* not JSON, and of fetch() on a transport failure (both set by the runtime)
ErrJsonParse == "JSON Parse error"
ErrNetwork == "Network request failed"
\* message of the TypeError the engine throws where .ok is read, without
\* optional chaining, of a body that parsed to null
ErrNullOk == "Cannot read properties of null (reading 'ok')"
\* bodies of the responses that are not 2xx; a body is drawn with the
\* statuses whose message quotes it
Bodies == {"", "boom"}
StatusBodies(statuses) ==
    { sb \in statuses \X Bodies : sb[1] \in {401, 404, 413} => sb[2] = "" }
\* String.prototype.slice(0, n)
slice(text, n) == IF Len(text) <= n THEN text ELSE SubSeq(text, 1, n)
\* `Upload failed (${status}): ${text.slice(0, 300)}`
UploadFailed(status, text) ==
    "Upload failed (" \o ToString(status) \o "): " \o slice(text, 300)
\* `Analyze failed (${status}): ${text.slice(0, 400)}`
AnalyzeFailed(status, text) ==
    "Analyze failed (" \o ToString(status) \o "): " \o slice(text, 400)

\* titles of the alerts
AlertNone == ""
AlertNoImage == "No image"
AlertAuthRequired == "Authentication Required"
AlertPermission == "Permission needed"

\* the server stores an uploaded picture under a URL of its own and analyses
\* the picture a URL names
UrlOf(b64) == "url:" \o b64.src
AnalysisOf(url) == "analysis:" \o url

\* the pages the list endpoint may return
EmptyList == "[]"
Lists == {"listA", "listB"}

(***************************************************************************)
(* State.                                                                   *)
(***************************************************************************)
VARIABLES
    \* ---- AnalyzePhotoScreen: hooks
    session,        \* useSession().session: Null or the active session
    imageUri,       \* useState: uri of the held image, or Null
    imageBase64,    \* useState: payload of the held image, or NoB64
    mimeType,       \* useState
    uploading,      \* useState
    analyzing,      \* useState
    error,          \* useState: message or Null
    result,         \* useState: analysis or Null
    listLoading,    \* useState
    recent,         \* useState: the held page of recent inspections
    alert,          \* title of the last Alert.alert shown
    \* ---- AnalyzePhotoScreen: suspended activations of analyze()
    runPc,          \* where activation r is suspended
    runSess,        \* session as the closure of activation r captured it
    runImg,         \* imageBase64 as the closure of activation r captured it
    runUrl,         \* const imageUrl of activation r
    runReq,         \* the request activation r awaits the response of
    runUploadHeaders, \* const uploadHeaders of activation r: its Authorization
    \* ---- AnalyzePhotoScreen: suspended activations of fetchRecent()
    refPc,
    refReq,
    refRecorded,    \* history: whether the order of the activations is recorded
    refOrder,       \* history: the activations of fetchRecent in flight after
                    \* which no later-started one has stored, oldest first
    \* ---- AnalyzePhotoScreen: the suspended capture / pick handler
    acqPc,
    acqAsset,
    \* ---- InspectionsScreen: hooks
    insMounted,     \* the screen is mounted
    insLoading,     \* useState
    insRefreshing,  \* useState
    insError,       \* useState: message or Null
    inspections,    \* useState: the held page of inspections
    \* ---- InspectionsScreen: suspended activations of fetchInspections()
    insPc,
    insReq,
    \* ---- InspectionScreen (detail): hooks of useInspectionData
    detMounted,     \* the screen is mounted
    detLoading,     \* useState
    detRefreshing,  \* useState
    detError,       \* useState: message or Null
    inspectionData, \* useState: the held InspectionResponse, or NoData
    \* ---- InspectionScreen: suspended activations of fetchInspection()
    detPc,
    detResp,        \* the response on its way to activation d
    \* ---- the remote service: processingStatus of the inspection the detail
    \* screen shows
    srvStatus,
    \* ---- presentation of an analysis: the hazards and the score it carries
    \* and what the screens derive from them
    hazards,            \* result.hazards / analysisResults.hazards
    memoSections,       \* useMemo value of sections (analyze screen)
    memoHazardSections, \* useMemo value of hazardSections (detail screen)
    riskScore,          \* overallAssessment.riskScore / inspection.riskScore
    detailColor,        \* color of the detail screen's risk score
    cardColor           \* color of the inspection card's risk score

screenVars == <<session, imageUri, imageBase64, mimeType, uploading, analyzing,
                error, result, listLoading, recent, alert>>
runVars == <<runPc, runSess, runImg, runUrl, runReq, runUploadHeaders>>
refVars == <<refPc, refReq, refRecorded, refOrder>>
acqVars == <<acqPc, acqAsset>>
insVars == <<insMounted, insLoading, insRefreshing, insError, inspections, insPc, insReq>>
detVars == <<detMounted, detLoading, detRefreshing, detError, inspectionData, detPc,
             detResp, srvStatus>>
aggVars == <<hazards, memoSections, memoHazardSections, riskScore, detailColor,
             cardColor>>
\* the state of the screens other than the analyze screen
otherScreens == <<insVars, detVars, aggVars>>
vars == <<screenVars, runVars, refVars, acqVars, insVars, detVars, aggVars>>

NoReq == [ep |-> "none", auth |-> Null, base64 |-> NoB64, imageUrl |-> Null]

\* const hasImage = !!imageUri && !!imageBase64
hasImage == imageUri # Null /\ Truthy(imageBase64)

(***************************************************************************)
(* AuthHeaderBuilder.                                                       *)
(***************************************************************************)
\* getAuthToken: no session gives null; a rejected getToken is caught and
\* gives null; otherwise whatever getToken resolved to.
getAuthToken(sess, outcome) ==
    IF sess = Null THEN Null
    ELSE IF outcome = "throw" THEN Null
    ELSE outcome

\* buildAuthHeaders: throws when there is no token, otherwise the headers
\* with Authorization: Bearer <token>.
buildAuthHeaders(sess, outcome) ==
    LET token == getAuthToken(sess, outcome)
    IN  IF token = Null
        THEN [threw |-> TRUE, message |-> ErrAuthRequired, Authorization |-> Null]
        ELSE [threw |-> FALSE, message |-> Null, Authorization |-> token]

(***************************************************************************)
(* ImageAcquisition: handleTakePhoto / handlePickFromGallery.               *)
(***************************************************************************)
\* the threshold on the decoded size of the native payload, in bytes
CompressThreshold == 3000000

\* what the camera or the picker may hand back as assets[0]: a small
\* landscape picture, a small picture whose payload is not returned, and a
\* portrait picture over the threshold (fileSize in bytes, base64 in characters)
Assets ==
    { [name |-> "a", uri |-> "file:///a.png", mimeType |-> "image/png",
       base64 |-> [src |-> "a", len |-> 1200],
       width |-> 800, height |-> 600, fileSize |-> 900],
      [name |-> "b", uri |-> "file:///b.HEIC", mimeType |-> Null,
       base64 |-> NoB64,
       width |-> 640, height |-> 480, fileSize |-> 60000],
      [name |-> "c", uri |-> "file:///c.jpg", mimeType |-> Null,
       base64 |-> [src |-> "c", len |-> 4000004],
       width |-> 3000, height |-> 4000, fileSize |-> 3000003] }
NoAsset == [name |-> Null, uri |-> Null, mimeType |-> Null, base64 |-> NoB64,
            width |-> 0, height |-> 0, fileSize |-> 0]

\* the picker's result: canceled, no usable asset, or an asset
LaunchResults ==
    { [canceled |-> TRUE, asset |-> NoAsset], [canceled |-> FALSE, asset |-> NoAsset] }
    \cup { [canceled |-> FALSE, asset |-> a] : a \in Assets }

\* lengths of the payload ImageManipulator may return (0: no base64 returned)
CompressedLens == {0, 200000}
CompressOutcomes ==
    { [threw |-> TRUE, len |-> 0] } \cup { [threw |-> FALSE, len |-> l] : l \in CompressedLens }

EndsWith(s, t) ==
    Len(s) >= Len(t) /\ SubSeq(s, Len(s) - Len(t) + 1, Len(s)) = t

\* String.prototype.toLowerCase on the letters the uris use
LowerChar(c) ==
    CASE c = "H" -> "h" [] c = "E" -> "e" [] c = "I" -> "i" [] c = "C" -> "c"
      [] c = "P" -> "p" [] c = "N" -> "n" [] c = "G" -> "g" [] c = "J" -> "j"
      [] OTHER -> c
RECURSIVE toLowerCase(_)
toLowerCase(s) ==
    IF Len(s) = 0 THEN s
    ELSE LowerChar(SubSeq(s, 1, 1)) \o toLowerCase(SubSeq(s, 2, Len(s)))

guessMimeFromUri(uri) ==
    IF uri = Null THEN Null
    ELSE LET lower == toLowerCase(uri)
         IN  IF EndsWith(lower, ".png") THEN "image/png"
             ELSE IF EndsWith(lower, ".jpg") \/ EndsWith(lower, ".jpeg") THEN "image/jpeg"
             ELSE IF EndsWith(lower, ".webp") THEN "image/webp"
             ELSE IF EndsWith(lower, ".heic") THEN "image/heic"
             ELSE Null

\* asset.mimeType || guessMimeFromUri(asset.uri) || "image/jpeg"
assetMime(asset) ==
    IF asset.mimeType # Null THEN asset.mimeType
    ELSE IF guessMimeFromUri(asset.uri) # Null THEN guessMimeFromUri(asset.uri)
    ELSE "image/jpeg"

\* !b64 || (b64.length * 0.75) > 3_000_000
needsCompress(b64) ==
    ~Truthy(b64) \/ 3 * b64.len > 4 * CompressThreshold

\* compressClientSide(uri, maxSide = 1600, quality = 0.7)
MaxSide == 1600

\* the ImageResult of manipulateAsync(uri, [{ resize: { width: maxSide } }],
\* { compress, format: JPEG, base64: true }): the width is set to maxSide and
\* the height follows the aspect ratio; len is the length of the base64 the
\* encoder returned (0: none)
manipulateAsync(asset, maxSide, len) ==
    [uri |-> asset.uri,
     width |-> maxSide,
     height |-> (asset.height * maxSide) \div asset.width,
     base64 |-> IF len > 0 THEN [src |-> asset.name, len |-> len] ELSE NoB64]

\* compressClientSide's return value for what manipulateAsync returned
compressClientSide(asset, len) ==
    LET r == manipulateAsync(asset, MaxSide, len)
    IN  [uri |-> r.uri, mime |-> "image/jpeg",
         base64 |-> r.base64,
         approxBytes |-> IF Truthy(r.base64) THEN (r.base64.len * 3) \div 4 ELSE 0]

\* if (b64) { setImageUri; setImageBase64; setMimeType; setResult(null) }
acquireCommit(asset, b64, mt) ==
    IF Truthy(b64)
    THEN /\ imageUri' = asset.uri
         /\ imageBase64' = b64
         /\ mimeType' = mt
         /\ result' = Null
    ELSE UNCHANGED <<imageUri, imageBase64, mimeType, result>>

\* the screen shows its buttons only with a session
rendered == session # Null

\* the activation of a capture or pick handler that the next press starts
FreeAcq(q) ==
    /\ acqPc[q] = "idle"
    /\ \A p \in Acqs : p < q => acqPc[p] # "idle"

\* mutant: the handler drops the previous result as soon as it starts
acquireStart_clearsResult ==
    /\ rendered
    /\ \E q \in Acqs :
          /\ FreeAcq(q)
          /\ acqPc' = [acqPc EXCEPT ![q] = "permission"]
    /\ error' = Null
    /\ result' = Null
    /\ UNCHANGED <<session, imageUri, imageBase64, mimeType, uploading, analyzing,
                   listLoading, recent, alert, acqAsset>>
    /\ UNCHANGED <<runVars, refVars>>
    /\ UNCHANGED otherScreens

\* handler entry up to the await of the permission request; the buttons are
\* never disabled, so a handler may start while another is suspended
acquireStart ==
    /\ rendered
    /\ \E q \in Acqs :
          /\ FreeAcq(q)
          /\ acqPc' = [acqPc EXCEPT ![q] = "permission"]
    /\ error' = Null
    /\ UNCHANGED <<session, imageUri, imageBase64, mimeType, uploading, analyzing,
                   result, listLoading, recent, alert, acqAsset>>
    /\ UNCHANGED <<runVars, refVars>>
    /\ UNCHANGED otherScreens

handleTakePhoto == acquireStart

handlePickFromGallery == acquireStart

\* the permission request of activation q resolves
acquire_permission(q) ==
    /\ acqPc[q] = "permission"
    /\ \E granted \in BOOLEAN :
          IF ~granted
          THEN /\ alert' = AlertPermission
               /\ acqPc' = [acqPc EXCEPT ![q] = "idle"]
          ELSE /\ acqPc' = [acqPc EXCEPT ![q] = "launch"]
               /\ UNCHANGED alert
    /\ UNCHANGED <<session, imageUri, imageBase64, mimeType, uploading, analyzing,
                   error, result, listLoading, recent, acqAsset>>
    /\ UNCHANGED <<runVars, refVars>>
    /\ UNCHANGED otherScreens

\* the camera or the picker of activation q resolves
acquire_launch(q, res) ==
    /\ acqPc[q] = "launch"
    /\    IF res.canceled \/ res.asset.uri = Null
          THEN /\ acqPc' = [acqPc EXCEPT ![q] = "idle"]
               /\ UNCHANGED <<imageUri, imageBase64, mimeType, result, acqAsset>>
          ELSE IF needsCompress(res.asset.base64)
          THEN /\ acqPc' = [acqPc EXCEPT ![q] = "compress"]
               /\ acqAsset' = [acqAsset EXCEPT ![q] = res.asset]
               /\ UNCHANGED <<imageUri, imageBase64, mimeType, result>>
          ELSE /\ acqPc' = [acqPc EXCEPT ![q] = "idle"]
               /\ acquireCommit(res.asset, res.asset.base64, assetMime(res.asset))
               /\ UNCHANGED acqAsset
    /\ UNCHANGED <<session, uploading, analyzing, error, listLoading, recent, alert>>
    /\ UNCHANGED <<runVars, refVars>>
    /\ UNCHANGED otherScreens

\* compressClientSide of activation q resolves or rejects (a rejection is
\* not caught)
acquire_compress(q, out) ==
    /\ acqPc[q] = "compress"
    /\    IF out.threw
          THEN UNCHANGED <<imageUri, imageBase64, mimeType, result>>
          ELSE LET c == compressClientSide(acqAsset[q], out.len)
               IN  acquireCommit(acqAsset[q], c.base64, c.mime)
    /\ acqPc' = [acqPc EXCEPT ![q] = "idle"]
    /\ acqAsset' = [acqAsset EXCEPT ![q] = NoAsset]
    /\ UNCHANGED <<session, uploading, analyzing, error, listLoading, recent, alert>>
    /\ UNCHANGED <<runVars, refVars>>
    /\ UNCHANGED otherScreens

(***************************************************************************)
(* HistoryCache of the analyze screen: fetchRecent.                         *)
(***************************************************************************)
\* what the list endpoint may answer: fetch rejects, or a response with a
\* status and a body that is not JSON, is the JSON null, or is an object with
\* ok set or not
ListResponses ==
    { [threw |-> TRUE, status |-> 0, json |-> FALSE, null |-> FALSE, ok |-> FALSE, list |-> EmptyList] }
    \cup { [threw |-> FALSE, status |-> s, json |-> FALSE, null |-> FALSE, ok |-> FALSE, list |-> EmptyList] :
               s \in ListStatuses }
    \cup { [threw |-> FALSE, status |-> 200, json |-> FALSE, null |-> FALSE, ok |-> FALSE,
            list |-> EmptyList] }
    \cup { [threw |-> FALSE, status |-> 200, json |-> TRUE, null |-> FALSE, ok |-> o, list |-> l] :
               o \in BOOLEAN, l \in Lists }
    \cup { [threw |-> FALSE, status |-> 200, json |-> TRUE, null |-> TRUE, ok |-> FALSE,
            list |-> EmptyList] }

FreeRefresh(k) ==
    /\ refPc[k] = "idle"
    /\ \A j \in Refreshes : j < k => refPc[j] # "idle"

\* fetchRecent() up to its first await: if (!session) return;
\* setListLoading(true); buildAuthHeaders() -> getToken()
fetchRecent(k, sess) ==
    IF sess = Null
    THEN UNCHANGED <<listLoading, refPc, refReq, refRecorded, refOrder>>
    ELSE /\ listLoading' = TRUE
         /\ refPc' = [refPc EXCEPT ![k] = "headers"]
         /\ refOrder' = IF refRecorded THEN Append(refOrder, k) ELSE refOrder
         /\ UNCHANGED <<refReq, refRecorded>>

\* the activations of order without activation k, and those started after it
Without(order, k) == SelectSeq(order, LAMBDA j : j # k)
StartedAfter(order, k) ==
    IF \E n \in DOMAIN order : order[n] = k
    THEN LET n == CHOOSE n \in DOMAIN order : order[n] = k
         IN  SubSeq(order, n + 1, Len(order))
    ELSE order

\* whether the list response passes every check before setRecent
listStored(resp) == ~resp.threw /\ RespOk(resp.status) /\ resp.json /\ resp.ok

\* mutant: a failed refresh empties the held list
recentAfter_clears(resp, held) ==
    IF resp.threw THEN EmptyList
    ELSE IF ~RespOk(resp.status) THEN EmptyList
    ELSE IF ~resp.json THEN EmptyList
    ELSE IF resp.ok THEN resp.list
    ELSE EmptyList

\* the held list after the list response: if (!resp.ok) return; a body that
\* does not parse rejects and is caught; if (json?.ok) setRecent(...)
recentAfter(resp, held) ==
    IF resp.threw THEN held
    ELSE IF ~RespOk(resp.status) THEN held
    ELSE IF ~resp.json THEN held
    ELSE IF resp.ok THEN resp.list
    ELSE held

\* mutant: the catch block reports the failure in the error slot
errorAfterRefresh_surfaced(resp, held) ==
    IF resp.threw \/ (RespOk(resp.status) /\ ~resp.json)
    THEN "Failed to fetch recent inspections"
    ELSE held

\* the error slot after the list response: the catch block only logs
errorAfterRefresh(resp, held) == held

\* getToken resolves or rejects inside fetchRecent
fetchRecent_headers(k, outcome) ==
    /\ refPc[k] = "headers"
    /\    LET headers == buildAuthHeaders("sess", outcome)
          IN  IF headers.threw
              THEN \* catch: console.warn; finally: setListLoading(false)
                   /\ listLoading' = FALSE
                   /\ refPc' = [refPc EXCEPT ![k] = "idle"]
                   /\ refOrder' = Without(refOrder, k)
                   /\ UNCHANGED <<refReq, refRecorded>>
              ELSE /\ refPc' = [refPc EXCEPT ![k] = "fetch"]
                   /\ refReq' = [refReq EXCEPT ![k] =
                          [NoReq EXCEPT !.ep = "list", !.auth = headers.Authorization]]
                   /\ UNCHANGED <<listLoading, refRecorded, refOrder>>
    /\ UNCHANGED <<session, imageUri, imageBase64, mimeType, uploading, analyzing,
                   error, result, recent, alert>>
    /\ UNCHANGED <<runVars, acqVars>>
    /\ UNCHANGED otherScreens

\* the list request resolves or rejects
fetchRecent_response(k, resp) ==
    /\ refPc[k] = "fetch"
    /\ recent' = recentAfter(resp, recent)
    /\ error' = errorAfterRefresh(resp, error)
    /\ listLoading' = FALSE
    /\ refPc' = [refPc EXCEPT ![k] = "idle"]
    /\ refReq' = [refReq EXCEPT ![k] = NoReq]
    /\ refOrder' = IF listStored(resp) THEN StartedAfter(refOrder, k)
                   ELSE Without(refOrder, k)
    /\ UNCHANGED refRecorded
    /\ UNCHANGED <<session, imageUri, imageBase64, mimeType, uploading, analyzing,
                   result, alert>>
    /\ UNCHANGED <<runVars, acqVars>>
    /\ UNCHANGED otherScreens

(***************************************************************************)
(* InspectionsScreen: buildAuthHeaders, fetchInspections, handleRefresh.     *)
(***************************************************************************)
InsFetchFailed(status) == "Failed to fetch inspections: " \o ToString(status)
ErrInvalidFormat == "Invalid response format"

FreeFetch(f) ==
    /\ insPc[f] = "idle"
    /\ \A g \in Fetches : g < f => insPc[g] # "idle"

\* buildAuthHeaders of the list screen: Authorization is added only when
\* getToken resolved to a token; the headers are returned in every case
ins_buildAuthHeaders(sess, outcome) ==
    [threw |-> FALSE,
     Authorization |-> IF sess # Null /\ outcome # "throw" /\ outcome # Null
                       THEN outcome ELSE Null]

\* fetchInspections(isRefresh) up to its first await: if (!session) return;
\* if (!isRefresh) setLoading(true); setError(null); buildAuthHeaders()
fetchInspections(f, isRefresh, sess) ==
    IF sess = Null
    THEN UNCHANGED <<insLoading, insError, insPc, insReq>>
    ELSE /\ insLoading' = (IF isRefresh THEN insLoading ELSE TRUE)
         /\ insError' = Null
         /\ insPc' = [insPc EXCEPT ![f] = "headers"]
         /\ UNCHANGED insReq

\* the message fetchInspections throws on the outcome of its fetch, or Null;
\* if (data.ok) reads .ok of whatever the body parsed to
insFetchError(resp) ==
    IF resp.threw THEN ErrNetwork
    ELSE IF ~RespOk(resp.status) THEN InsFetchFailed(resp.status)
    ELSE IF ~resp.json THEN ErrJsonParse
    ELSE IF resp.null THEN ErrNullOk
    ELSE IF resp.ok THEN Null
    ELSE ErrInvalidFormat

\* err.message || 'Failed to load inspections'
insCatchMessage(message) ==
    IF message = "" \/ message = Null THEN "Failed to load inspections" ELSE message

\* useEffect(() => { fetchInspections() }, [fetchInspections]) of a mounted
\* list screen, run with the session the render sees
insSessionEffect(sess) ==
    IF insMounted /\ sess # Null
    THEN /\ \E f \in Fetches :
               /\ FreeFetch(f)
               /\ fetchInspections(f, FALSE, sess)
         /\ UNCHANGED <<insMounted, insRefreshing, inspections>>
    ELSE UNCHANGED insVars

(***************************************************************************)
(* InspectionScreen (detail): useAuthHeaders, useInspectionData.             *)
(***************************************************************************)
\* activation records of fetchInspection() that may be suspended at the same time
MaxDetail == 2
Details == 1..MaxDetail

\* type ProcessingStatus
ProcessingStatuses == {"pending", "processing", "completed", "failed"}

\* statuses other than 200 that the fetch-one endpoint answers with
DetailStatuses == {401, 404, 500}

ErrDetNoSession == "Authentication required"
ErrDetNoToken == "Authentication required. Please ensure you're logged in."
ErrNotFound == "Inspection not found."
\* `Failed to load inspection (${response.status}): ${text}`
DetLoadFailed(status, text) ==
    "Failed to load inspection (" \o ToString(status) \o "): " \o text

\* useState<InspectionResponse | null>(null)
NoData == [ok |-> FALSE, processingStatus |-> Null, analysisResults |-> FALSE]
NoResp == [threw |-> FALSE, status |-> 0, text |-> "", json |-> FALSE, null |-> FALSE, ok |-> FALSE,
           processingStatus |-> Null, analysisResults |-> FALSE]

\* whether the service's record of an inspection in status st carries
\* analysisResults (non-null): if and only if the status is completed
srv_analysisResults(st) == st = "completed"

\* what the fetch-one endpoint may answer while the inspection is in status st:
\* fetch rejects, a status other than 200, a 200 whose body is not JSON, is the
\* JSON null, lacks ok, or is the inspection as the service holds it
DetailResponses(st) ==
    { [NoResp EXCEPT !.threw = TRUE] }
    \cup { [NoResp EXCEPT !.status = sb[1], !.text = sb[2]] :
               sb \in StatusBodies(DetailStatuses) }
    \cup { [NoResp EXCEPT !.status = 200],
           [NoResp EXCEPT !.status = 200, !.json = TRUE],
           [NoResp EXCEPT !.status = 200, !.json = TRUE, !.null = TRUE],
           [NoResp EXCEPT !.status = 200, !.json = TRUE, !.ok = TRUE,
                          !.processingStatus = st,
                          !.analysisResults = srv_analysisResults(st)] }

AllDetailResponses == UNION { DetailResponses(st) : st \in ProcessingStatuses }

\* the service moves an inspection pending -> processing -> {completed, failed}
server_progress ==
    /\ \/ srvStatus = "pending" /\ srvStatus' = "processing"
       \/ srvStatus = "processing" /\ srvStatus' \in {"completed", "failed"}
    /\ UNCHANGED <<detMounted, detLoading, detRefreshing, detError, inspectionData,
                   detPc, detResp>>
    /\ UNCHANGED <<screenVars, runVars, refVars, acqVars, insVars, aggVars>>

\* buildAuthHeaders of useAuthHeaders: throws when there is no token
det_buildAuthHeaders(sess, outcome) ==
    LET token == IF sess = Null \/ outcome = "throw" THEN Null ELSE outcome
    IN  IF token = Null
        THEN [threw |-> TRUE, message |-> ErrDetNoToken, Authorization |-> Null]
        ELSE [threw |-> FALSE, message |-> Null, Authorization |-> token]

FreeDetail(d) ==
    /\ detPc[d] = "idle"
    /\ \A c \in Details : c < d => detPc[c] # "idle"

\* fetchInspection(isRefresh) up to its first await (the route always gives
\* an id): without a session setError, setLoading(false) and return;
\* otherwise if (!isRefresh) setLoading(true); setError(null); buildAuthHeaders()
fetchInspection(d, isRefresh, sess) ==
    IF sess = Null
    THEN /\ detError' = ErrDetNoSession
         /\ detLoading' = FALSE
         /\ UNCHANGED <<detPc, detResp>>
    ELSE /\ FreeDetail(d)
         /\ detLoading' = (IF isRefresh THEN detLoading ELSE TRUE)
         /\ detError' = Null
         /\ detPc' = [detPc EXCEPT ![d] = "headers"]
         /\ UNCHANGED detResp

\* the message fetchInspection throws on the outcome of its fetch, or Null;
\* if (!json.ok) reads .ok of whatever the body parsed to
detFetchError(resp) ==
    IF resp.threw THEN ErrNetwork
    ELSE IF ~RespOk(resp.status)
    THEN IF resp.status = 401 THEN ErrAuthFailed
         ELSE IF resp.status = 404 THEN ErrNotFound
         ELSE DetLoadFailed(resp.status, resp.text)
    ELSE IF ~resp.json THEN ErrJsonParse
    ELSE IF resp.null THEN ErrNullOk
    ELSE IF ~resp.ok THEN ErrInvalidFormat
    ELSE Null

\* e?.message || "Failed to load inspection"
detCatchMessage(message) ==
    IF message = "" \/ message = Null THEN "Failed to load inspection" ELSE message

\* mutant: a failed fetch drops the inspection the view holds
dataAfterFetch_dropsOnFailure(resp, held) ==
    IF detFetchError(resp) # Null THEN NoData
    ELSE [ok |-> TRUE, processingStatus |-> resp.processingStatus,
          analysisResults |-> resp.analysisResults]

\* inspectionData after the response: setInspectionData(json) is reached only
\* when nothing was thrown
dataAfterFetch(resp, held) ==
    IF detFetchError(resp) # Null THEN held
    ELSE [ok |-> TRUE, processingStatus |-> resp.processingStatus,
          analysisResults |-> resp.analysisResults]

\* useEffect(() => { fetchInspection() }, [fetchInspection]) of a mounted
\* detail screen, run with the session the render sees
detSessionEffect(sess) ==
    IF detMounted
    THEN /\ \E d \in Details : fetchInspection(d, FALSE, sess)
         /\ UNCHANGED <<detMounted, detRefreshing, inspectionData, srvStatus>>
    ELSE UNCHANGED detVars

\* the detail screen is opened: its first render and its effect
detMount ==
    /\ ~detMounted
    /\ detMounted' = TRUE
    /\ \E d \in Details : fetchInspection(d, FALSE, session)
    /\ UNCHANGED <<detRefreshing, inspectionData, srvStatus>>
    /\ UNCHANGED <<screenVars, runVars, refVars, acqVars, insVars, aggVars>>

\* catch (e) { setError(...) } finally { setLoading(false); setRefreshing(false) }
detFail(d, message) ==
    /\ detError' = detCatchMessage(message)
    /\ detLoading' = FALSE
    /\ detRefreshing' = FALSE
    /\ detPc' = [detPc EXCEPT ![d] = "idle"]
    /\ detResp' = [detResp EXCEPT ![d] = NoResp]

\* getToken resolves or rejects inside fetchInspection
fetchInspection_headers(d, outcome) ==
    /\ detPc[d] = "headers"
    /\ LET headers == det_buildAuthHeaders("sess", outcome)
       IN  IF headers.threw
           THEN detFail(d, headers.message)
           ELSE /\ detPc' = [detPc EXCEPT ![d] = "fetch"]
                /\ UNCHANGED <<detLoading, detRefreshing, detError, detResp>>
    /\ UNCHANGED <<detMounted, inspectionData, srvStatus>>
    /\ UNCHANGED <<screenVars, runVars, refVars, acqVars, insVars, aggVars>>

\* the service (or the transport) answers the request of activation d with
\* the inspection as it is at that moment
fetchInspection_served(d, resp) ==
    /\ detPc[d] = "fetch"
    /\ resp \in DetailResponses(srvStatus)
    /\ detPc' = [detPc EXCEPT ![d] = "reply"]
    /\ detResp' = [detResp EXCEPT ![d] = resp]
    /\ UNCHANGED <<detMounted, detLoading, detRefreshing, detError, inspectionData,
                   srvStatus>>
    /\ UNCHANGED <<screenVars, runVars, refVars, acqVars, insVars, aggVars>>

\* the response reaches activation d
fetchInspection_response(d) ==
    /\ detPc[d] = "reply"
    /\ LET message == detFetchError(detResp[d])
       IN  IF message # Null
           THEN detFail(d, message)
           ELSE /\ detLoading' = FALSE
                /\ detRefreshing' = FALSE
                /\ detPc' = [detPc EXCEPT ![d] = "idle"]
                /\ detResp' = [detResp EXCEPT ![d] = NoResp]
                /\ UNCHANGED detError
    /\ inspectionData' = dataAfterFetch(detResp[d], inspectionData)
    /\ UNCHANGED <<detMounted, srvStatus>>
    /\ UNCHANGED <<screenVars, runVars, refVars, acqVars, insVars, aggVars>>

\* the view with the inspection is on screen
detShown ==
    /\ detMounted
    /\ ~detLoading
    /\ detError = Null
    /\ inspectionData # NoData

\* mutant: the render has no branch for a failed inspection
detCard_noFailedBranch(inspection) ==
    IF inspection.processingStatus = "completed" /\ inspection.analysisResults
    THEN "results"
    ELSE "inProgress"

\* the card the view renders under the image:
\* processingStatus === "completed" && analysis ? results
\*   : processingStatus === "failed" ? 'Analysis Failed' : 'Analysis In Progress'
detCard(inspection) ==
    IF inspection.processingStatus = "completed" /\ inspection.analysisResults
    THEN "results"
    ELSE IF inspection.processingStatus = "failed" THEN "failed"
    ELSE "inProgress"

\* handleRefresh: by pull-to-refresh when the control is not already
\* refreshing, by the button of the status card while processing, or by the
\* "Refresh Status" button of the 'Analysis In Progress' card
det_handleRefresh ==
    /\ detShown
    /\ \/ ~detRefreshing
       \/ inspectionData.processingStatus = "processing"
       \/ detCard(inspectionData) = "inProgress"
    /\ detRefreshing' = TRUE
    /\ \E d \in Details : fetchInspection(d, TRUE, session)
    /\ UNCHANGED <<detMounted, inspectionData, srvStatus>>
    /\ UNCHANGED <<screenVars, runVars, refVars, acqVars, insVars, aggVars>>

\* onRetry of the ErrorCard: fetchInspection()
det_retry ==
    /\ detMounted
    /\ ~detLoading
    /\ detError # Null
    /\ \E d \in Details : fetchInspection(d, FALSE, session)
    /\ UNCHANGED <<detMounted, detRefreshing, inspectionData, srvStatus>>
    /\ UNCHANGED <<screenVars, runVars, refVars, acqVars, insVars, aggVars>>

\* useEffect(() => { if (session) fetchRecent() }, [session]): the session
\* becomes available, and the effects of the mounted screens run
sessionAvailable ==
    /\ session = Null
    /\ session' = "sess"
    /\ \E k \in Refreshes :
          /\ FreeRefresh(k)
          /\ fetchRecent(k, "sess")
    /\ insSessionEffect("sess")
    /\ detSessionEffect("sess")
    /\ UNCHANGED <<imageUri, imageBase64, mimeType, uploading, analyzing,
                   error, result, recent, alert>>
    /\ UNCHANGED <<runVars, acqVars, aggVars>>

\* getToken resolves or rejects inside fetchInspections; the request is sent
\* with the headers as they are
fetchInspections_headers(f, outcome) ==
    /\ insPc[f] = "headers"
    /\ LET headers == ins_buildAuthHeaders("sess", outcome)
       IN  /\ insPc' = [insPc EXCEPT ![f] = "fetch"]
           /\ insReq' = [insReq EXCEPT ![f] =
                  [NoReq EXCEPT !.ep = "list", !.auth = headers.Authorization]]
    /\ UNCHANGED <<insMounted, insLoading, insRefreshing, insError, inspections>>
    /\ UNCHANGED <<screenVars, runVars, refVars, acqVars, detVars, aggVars>>

\* the list request of the list screen resolves or rejects
fetchInspections_response(f, resp) ==
    /\ insPc[f] = "fetch"
    /\ LET message == insFetchError(resp)
       IN  IF message = Null
           THEN /\ inspections' = resp.list
                /\ UNCHANGED insError
           ELSE /\ insError' = insCatchMessage(message)
                /\ UNCHANGED inspections
    /\ insLoading' = FALSE
    /\ insRefreshing' = FALSE
    /\ insPc' = [insPc EXCEPT ![f] = "idle"]
    /\ insReq' = [insReq EXCEPT ![f] = NoReq]
    /\ UNCHANGED insMounted
    /\ UNCHANGED <<screenVars, runVars, refVars, acqVars, detVars, aggVars>>

\* pull-to-refresh on the list, which is shown when the screen is neither
\* loading nor showing an error, and not already refreshing
ins_handleRefresh ==
    /\ insMounted
    /\ ~insLoading
    /\ insError = Null
    /\ ~insRefreshing
    /\ insRefreshing' = TRUE
    /\ IF session = Null
       THEN UNCHANGED <<insLoading, insError, insPc, insReq>>
       ELSE \E f \in Fetches :
               /\ FreeFetch(f)
               /\ fetchInspections(f, TRUE, session)
    /\ UNCHANGED <<insMounted, inspections>>
    /\ UNCHANGED <<screenVars, runVars, refVars, acqVars, detVars, aggVars>>

\* the session ends (sign-out, expiry); the effects run: those of the
\* analyze and list screens do nothing, that of the detail screen reports
\* the missing session
sessionLost ==
    /\ session # Null
    /\ session' = Null
    /\ detSessionEffect(Null)
    /\ UNCHANGED <<imageUri, imageBase64, mimeType, uploading, analyzing,
                   error, result, listLoading, recent, alert>>
    /\ UNCHANGED <<runVars, refVars, acqVars, aggVars>>
    /\ UNCHANGED insVars

(***************************************************************************)
(* InspectionPipeline: analyze.                                             *)
(***************************************************************************)
\* what the upload and the analyze endpoints may answer: fetch rejects, or a
\* response with a status and a body that is not JSON, is the JSON null, or is
\* an object carrying ok and the url / the analysis or not
UploadResponses ==
    { [threw |-> TRUE, status |-> 0, text |-> "", json |-> FALSE, null |-> FALSE, ok |-> FALSE,
       url |-> FALSE] }
    \cup { [threw |-> FALSE, status |-> sb[1], text |-> sb[2], json |-> FALSE,
            null |-> FALSE, ok |-> FALSE, url |-> FALSE] : sb \in StatusBodies(UploadStatuses) }
    \cup { [threw |-> FALSE, status |-> 200, text |-> "", json |-> FALSE, null |-> FALSE, ok |-> FALSE,
            url |-> FALSE] }
    \cup { [threw |-> FALSE, status |-> 200, text |-> "", json |-> TRUE, null |-> FALSE, ok |-> o,
            url |-> u] : o \in BOOLEAN, u \in BOOLEAN }
    \cup { [threw |-> FALSE, status |-> 200, text |-> "", json |-> TRUE, null |-> TRUE,
            ok |-> FALSE, url |-> FALSE] }
AnalyzeResponses ==
    { [threw |-> TRUE, status |-> 0, text |-> "", json |-> FALSE, null |-> FALSE, ok |-> FALSE,
       analysis |-> FALSE] }
    \cup { [threw |-> FALSE, status |-> sb[1], text |-> sb[2], json |-> FALSE,
            null |-> FALSE, ok |-> FALSE, analysis |-> FALSE] : sb \in StatusBodies(AnalyzeStatuses) }
    \cup { [threw |-> FALSE, status |-> 200, text |-> "", json |-> FALSE, null |-> FALSE, ok |-> FALSE,
            analysis |-> FALSE] }
    \cup { [threw |-> FALSE, status |-> 200, text |-> "", json |-> TRUE, null |-> FALSE, ok |-> o,
            analysis |-> a] : o \in BOOLEAN, a \in BOOLEAN }
    \cup { [threw |-> FALSE, status |-> 200, text |-> "", json |-> TRUE, null |-> TRUE,
            ok |-> FALSE, analysis |-> FALSE] }

\* mutant: the button is disabled only by the missing image
disabled_imageOnly == ~hasImage

\* disabled={!hasImage || uploading || analyzing}
disabled == ~hasImage \/ uploading \/ analyzing

\* mutant: the first early return is missing
analyzeGuard_noImageCheck ==
    IF session = Null THEN AlertAuthRequired ELSE AlertNone

\* mutant: the second early return is missing
analyzeGuard_noSessionCheck ==
    IF ~hasImage THEN AlertNoImage ELSE AlertNone

\* the two early returns of analyze: the alert it shows, or none
analyzeGuard ==
    IF ~hasImage THEN AlertNoImage
    ELSE IF session = Null THEN AlertAuthRequired
    ELSE AlertNone

\* upJson.url of a response whose body parsed
upJsonUrl(resp, b64) == IF resp.url THEN UrlOf(b64) ELSE Null

\* mutant: the check of upJson.ok and upJson.url is missing
uploadStage_noUrlCheck(resp, b64) ==
    IF resp.threw THEN [error |-> ErrNetwork, url |-> Null]
    ELSE IF ~RespOk(resp.status)
    THEN [error |-> IF resp.status = 401 THEN ErrAuthFailed
                    ELSE IF resp.status = 413 THEN ErrTooLarge
                    ELSE UploadFailed(resp.status, resp.text),
          url |-> Null]
    ELSE IF ~resp.json THEN [error |-> ErrJsonParse, url |-> Null]
    ELSE [error |-> Null, url |-> upJsonUrl(resp, b64)]

\* mutant: 413 is not told from the other statuses
uploadStage_no413(resp, b64) ==
    IF resp.threw THEN [error |-> ErrNetwork, url |-> Null]
    ELSE IF ~RespOk(resp.status)
    THEN [error |-> IF resp.status = 401 THEN ErrAuthFailed
                    ELSE UploadFailed(resp.status, resp.text),
          url |-> Null]
    ELSE IF ~resp.json THEN [error |-> ErrJsonParse, url |-> Null]
    ELSE IF ~resp.ok \/ upJsonUrl(resp, b64) = Null
    THEN [error |-> ErrMissingUrl, url |-> Null]
    ELSE [error |-> Null, url |-> upJsonUrl(resp, b64)]

\* the upload stage on the outcome of its fetch: the message of the error it
\* throws (or Null) and the imageUrl it goes on with
uploadStage(resp, b64) ==
    IF resp.threw THEN [error |-> ErrNetwork, url |-> Null]
    ELSE IF ~RespOk(resp.status)
    THEN [error |-> IF resp.status = 401 THEN ErrAuthFailed
                    ELSE IF resp.status = 413 THEN ErrTooLarge
                    ELSE UploadFailed(resp.status, resp.text),
          url |-> Null]
    ELSE IF ~resp.json THEN [error |-> ErrJsonParse, url |-> Null]
    ELSE IF ~resp.ok \/ upJsonUrl(resp, b64) = Null
    THEN [error |-> ErrMissingUrl, url |-> Null]
    ELSE [error |-> Null, url |-> upJsonUrl(resp, b64)]

\* json.analysis of a response whose body parsed
jsonAnalysis(resp, url) == IF resp.analysis THEN AnalysisOf(url) ELSE Null

\* mutant: only json.ok is checked, a missing analysis is stored
analyzeStage_okOnly(resp, url) ==
    IF resp.threw THEN [error |-> ErrNetwork, analysis |-> Null]
    ELSE IF ~RespOk(resp.status)
    THEN [error |-> IF resp.status = 401 THEN ErrAuthFailed
                    ELSE AnalyzeFailed(resp.status, resp.text),
          analysis |-> Null]
    ELSE IF ~resp.json THEN [error |-> ErrJsonParse, analysis |-> Null]
    ELSE IF ~resp.ok THEN [error |-> ErrUnexpectedAnalyze, analysis |-> Null]
    ELSE [error |-> Null, analysis |-> jsonAnalysis(resp, url)]

\* the analyze stage on the outcome of its fetch: the message of the error it
\* throws (or Null) and the analysis it stores
analyzeStage(resp, url) ==
    IF resp.threw THEN [error |-> ErrNetwork, analysis |-> Null]
    ELSE IF ~RespOk(resp.status)
    THEN [error |-> IF resp.status = 401 THEN ErrAuthFailed
                    ELSE AnalyzeFailed(resp.status, resp.text),
          analysis |-> Null]
    ELSE IF ~resp.json THEN [error |-> ErrJsonParse, analysis |-> Null]
    ELSE IF ~resp.ok \/ jsonAnalysis(resp, url) = Null
    THEN [error |-> ErrUnexpectedAnalyze, analysis |-> Null]
    ELSE [error |-> Null, analysis |-> jsonAnalysis(resp, url)]

\* e?.message || "Failed to analyze image."
catchMessage(message) ==
    IF message = "" \/ message = Null THEN "Failed to analyze image." ELSE message

FreeRun(r) ==
    /\ runPc[r] = "idle"
    /\ \A q \in Runs : q < r => runPc[q] # "idle"

\* activation r returns
runReturn(r) ==
    /\ runPc' = [runPc EXCEPT ![r] = "idle"]
    /\ runSess' = [runSess EXCEPT ![r] = Null]
    /\ runImg' = [runImg EXCEPT ![r] = NoB64]
    /\ runUrl' = [runUrl EXCEPT ![r] = Null]
    /\ runReq' = [runReq EXCEPT ![r] = NoReq]
    /\ runUploadHeaders' = [runUploadHeaders EXCEPT ![r] = Null]

\* mutant: the history refresh is started in the finally block, so also
\* after a failure
runFail_refresh(r, message) ==
    /\ error' = catchMessage(message)
    /\ uploading' = FALSE
    /\ analyzing' = FALSE
    /\ runReturn(r)
    /\ \E k \in Refreshes :
          /\ FreeRefresh(k)
          /\ fetchRecent(k, runSess[r])
    /\ UNCHANGED <<session, imageUri, imageBase64, mimeType, result, recent, alert>>
    /\ UNCHANGED acqVars

\* mutant: the progress flags are cleared in the try block only, so a failed
\* run leaves them set
runFail_keepsFlags(r, message) ==
    /\ error' = catchMessage(message)
    /\ runReturn(r)
    /\ UNCHANGED <<session, imageUri, imageBase64, mimeType, result, listLoading,
                   recent, alert, uploading, analyzing>>
    /\ UNCHANGED <<refVars, acqVars>>

\* mutant: a failed stage is tried again from the upload
runFail_retries(r, message) ==
    /\ error' = catchMessage(message)
    /\ uploading' = TRUE
    /\ analyzing' = FALSE
    /\ runPc' = [runPc EXCEPT ![r] = "uploadHeaders"]
    /\ runUrl' = [runUrl EXCEPT ![r] = Null]
    /\ runReq' = [runReq EXCEPT ![r] = NoReq]
    /\ runUploadHeaders' = [runUploadHeaders EXCEPT ![r] = Null]
    /\ UNCHANGED <<runSess, runImg>>
    /\ UNCHANGED <<session, imageUri, imageBase64, mimeType, result, listLoading,
                   recent, alert>>
    /\ UNCHANGED <<refVars, acqVars>>

\* catch (e) { setError(...) } finally { setUploading(false); setAnalyzing(false) }
runFail(r, message) ==
    /\ error' = catchMessage(message)
    /\ uploading' = FALSE
    /\ analyzing' = FALSE
    /\ runReturn(r)
    /\ UNCHANGED <<session, imageUri, imageBase64, mimeType, result, listLoading,
                   recent, alert>>
    /\ UNCHANGED <<refVars, acqVars>>

\* mutant: the run clears the previous error but keeps the previous result
analyze_keepsResult(r) ==
    /\ FreeRun(r)
    /\ IF analyzeGuard # AlertNone
       THEN /\ alert' = analyzeGuard
            /\ UNCHANGED <<error, result, uploading, runVars>>
       ELSE /\ error' = Null
            /\ uploading' = TRUE
            /\ runPc' = [runPc EXCEPT ![r] = "uploadHeaders"]
            /\ runSess' = [runSess EXCEPT ![r] = session]
            /\ runImg' = [runImg EXCEPT ![r] = imageBase64]
            /\ UNCHANGED <<result, alert, runUrl, runReq, runUploadHeaders>>
    /\ UNCHANGED <<session, imageUri, imageBase64, mimeType, analyzing, listLoading,
                   recent>>
    /\ UNCHANGED <<refVars, acqVars>>
    /\ UNCHANGED otherScreens

\* mutant: the run starts without clearing the previous result and error
analyze_keepsSlots(r) ==
    /\ FreeRun(r)
    /\ IF analyzeGuard # AlertNone
       THEN /\ alert' = analyzeGuard
            /\ UNCHANGED <<error, result, uploading, runVars>>
       ELSE /\ uploading' = TRUE
            /\ runPc' = [runPc EXCEPT ![r] = "uploadHeaders"]
            /\ runSess' = [runSess EXCEPT ![r] = session]
            /\ runImg' = [runImg EXCEPT ![r] = imageBase64]
            /\ UNCHANGED <<error, result, alert, runUrl, runReq, runUploadHeaders>>
    /\ UNCHANGED <<session, imageUri, imageBase64, mimeType, analyzing, listLoading,
                   recent>>
    /\ UNCHANGED <<refVars, acqVars>>
    /\ UNCHANGED otherScreens

\* analyze() from its entry to its first await
analyze(r) ==
    /\ FreeRun(r)
    /\ IF analyzeGuard # AlertNone
       THEN /\ alert' = analyzeGuard
            /\ UNCHANGED <<error, result, uploading, runVars>>
       ELSE /\ error' = Null
            /\ result' = Null
            /\ uploading' = TRUE
            /\ runPc' = [runPc EXCEPT ![r] = "uploadHeaders"]
            /\ runSess' = [runSess EXCEPT ![r] = session]
            /\ runImg' = [runImg EXCEPT ![r] = imageBase64]
            /\ UNCHANGED <<alert, runUrl, runReq, runUploadHeaders>>
    /\ UNCHANGED <<session, imageUri, imageBase64, mimeType, analyzing, listLoading,
                   recent>>
    /\ UNCHANGED <<refVars, acqVars>>
    /\ UNCHANGED otherScreens

\* getToken resolves or rejects before the upload
analyze_uploadHeaders(r, outcome) ==
    /\ runPc[r] = "uploadHeaders"
    /\    LET uploadHeaders == buildAuthHeaders(runSess[r], outcome)
          IN  IF uploadHeaders.threw
              THEN runFail(r, uploadHeaders.message)
              ELSE /\ runPc' = [runPc EXCEPT ![r] = "uploadFetch"]
                   /\ runReq' = [runReq EXCEPT ![r] =
                          [NoReq EXCEPT !.ep = "upload",
                                        !.auth = uploadHeaders.Authorization,
                                        !.base64 = runImg[r]]]
                   /\ runUploadHeaders' = [runUploadHeaders EXCEPT ![r] =
                          uploadHeaders.Authorization]
                   /\ UNCHANGED <<runSess, runImg, runUrl>>
                   /\ UNCHANGED <<screenVars, refVars, acqVars>>
    /\ UNCHANGED otherScreens

\* mutant: the analyze stage is entered without clearing the upload flag
analyze_uploadResponse_keepsUploading(r, resp) ==
    /\ runPc[r] = "uploadFetch"
    /\    LET up == uploadStage(resp, runReq[r].base64)
          IN  IF up.error # Null
              THEN runFail(r, up.error)
              ELSE /\ analyzing' = TRUE
                   /\ runUrl' = [runUrl EXCEPT ![r] = up.url]
                   /\ runPc' = [runPc EXCEPT ![r] = "analyzeHeaders"]
                   /\ runReq' = [runReq EXCEPT ![r] = NoReq]
                   /\ UNCHANGED <<runSess, runImg, runUploadHeaders>>
                   /\ UNCHANGED <<session, imageUri, imageBase64, mimeType, error,
                                  result, listLoading, recent, alert, uploading>>
                   /\ UNCHANGED <<refVars, acqVars>>
    /\ UNCHANGED otherScreens

\* the upload request resolves or rejects
analyze_uploadResponse(r, resp) ==
    /\ runPc[r] = "uploadFetch"
    /\    LET up == uploadStage(resp, runReq[r].base64)
          IN  IF up.error # Null
              THEN runFail(r, up.error)
              ELSE /\ uploading' = FALSE
                   /\ analyzing' = TRUE
                   /\ runUrl' = [runUrl EXCEPT ![r] = up.url]
                   /\ runPc' = [runPc EXCEPT ![r] = "analyzeHeaders"]
                   /\ runReq' = [runReq EXCEPT ![r] = NoReq]
                   /\ UNCHANGED <<runSess, runImg, runUploadHeaders>>
                   /\ UNCHANGED <<session, imageUri, imageBase64, mimeType, error,
                                  result, listLoading, recent, alert>>
                   /\ UNCHANGED <<refVars, acqVars>>
    /\ UNCHANGED otherScreens

\* mutant: the headers built for the upload are sent again
analyzeHeadersOf_reused(r, outcome) ==
    [threw |-> FALSE, message |-> Null, Authorization |-> runUploadHeaders[r]]

\* const analyzeHeaders = await buildAuthHeaders()
analyzeHeadersOf(r, outcome) == buildAuthHeaders(runSess[r], outcome)

\* getToken resolves or rejects before the analyze request
analyze_analyzeHeaders(r, outcome) ==
    /\ runPc[r] = "analyzeHeaders"
    /\    LET analyzeHeaders == analyzeHeadersOf(r, outcome)
          IN  IF analyzeHeaders.threw
              THEN runFail(r, analyzeHeaders.message)
              ELSE /\ runPc' = [runPc EXCEPT ![r] = "analyzeFetch"]
                   /\ runReq' = [runReq EXCEPT ![r] =
                          [NoReq EXCEPT !.ep = "analyze",
                                        !.auth = analyzeHeaders.Authorization,
                                        !.imageUrl = runUrl[r]]]
                   /\ UNCHANGED <<runSess, runImg, runUrl, runUploadHeaders>>
                   /\ UNCHANGED <<screenVars, refVars, acqVars>>
    /\ UNCHANGED otherScreens

\* the analyze request resolves or rejects
analyze_analyzeResponse(r, resp) ==
    /\ runPc[r] = "analyzeFetch"
    /\    LET an == analyzeStage(resp, runReq[r].imageUrl)
          IN  IF an.error # Null
              THEN runFail(r, an.error)
              ELSE \* setResult(json.analysis); fetchRecent(); finally
                   /\ result' = an.analysis
                   /\ \E k \in Refreshes :
                         /\ FreeRefresh(k)
                         /\ fetchRecent(k, runSess[r])
                   /\ uploading' = FALSE
                   /\ analyzing' = FALSE
                   /\ runReturn(r)
                   /\ UNCHANGED <<session, imageUri, imageBase64, mimeType, error,
                                  recent, alert>>
                   /\ UNCHANGED acqVars
    /\ UNCHANGED otherScreens

\* the user presses the Analyze button
pressAnalyze ==
    /\ rendered
    /\ ~disabled
    /\ \E r \in Runs : analyze(r)

\* analyze() invoked as a function, whatever the screen shows and whether
\* or not an earlier activation has returned
callAnalyze == \E r \in Runs : analyze(r)

(***************************************************************************)
(* Presentation of an analysis: the hazards grouped into category sections  *)
(* (sections of the analyze screen, hazardSections of the detail screen)    *)
(* and the color of a risk score (detail screen, inspection card).          *)
(***************************************************************************)
\* longest hazard list drawn
MaxHazards == 3

\* type HazardCategory
HazardCategories ==
    {"PPE", "Fall", "Fire", "Electrical", "Chemical", "Machinery", "Environmental",
     "Other"}

\* the hazard lists an analysis may carry: hazard n of a list has id n
HazardLists ==
    UNION { { [n \in 1..len |-> [id |-> n, category |-> cats[n]]] :
                cats \in [1..len -> HazardCategories] } : len \in 0..MaxHazards }

UpperLetters == "ABCDEFGHIJKLMNOPQRSTUVWXYZ"
LowerLetters == "abcdefghijklmnopqrstuvwxyz"
IsUpper(c) == \E i \in 1..Len(UpperLetters) : SubSeq(UpperLetters, i, i) = c
\* place of a letter in the alphabet, whatever its case
LetterRank(c) ==
    CHOOSE i \in 1..Len(UpperLetters) :
        SubSeq(UpperLetters, i, i) = c \/ SubSeq(LowerLetters, i, i) = c

\* collation of two words of letters, first level: the letters, case ignored
RECURSIVE PrimaryCompare(_, _)
PrimaryCompare(a, b) ==
    IF Len(a) = 0 /\ Len(b) = 0 THEN 0
    ELSE IF Len(a) = 0 THEN -1
    ELSE IF Len(b) = 0 THEN 1
    ELSE LET x == LetterRank(SubSeq(a, 1, 1))
             y == LetterRank(SubSeq(b, 1, 1))
         IN  IF x < y THEN -1
             ELSE IF x > y THEN 1
             ELSE PrimaryCompare(SubSeq(a, 2, Len(a)), SubSeq(b, 2, Len(b)))

\* collation of two words with the same letters, last level: at the first
\* difference of case the lower-case letter comes first
RECURSIVE CaseCompare(_, _)
CaseCompare(a, b) ==
    IF Len(a) = 0 \/ Len(b) = 0 THEN 0
    ELSE LET x == IsUpper(SubSeq(a, 1, 1))
             y == IsUpper(SubSeq(b, 1, 1))
         IN  IF ~x /\ y THEN -1
             ELSE IF x /\ ~y THEN 1
             ELSE CaseCompare(SubSeq(a, 2, Len(a)), SubSeq(b, 2, Len(b)))

\* String.prototype.localeCompare on words of letters, default collation
localeCompare(a, b) ==
    IF PrimaryCompare(a, b) # 0 THEN PrimaryCompare(a, b) ELSE CaseCompare(a, b)

\* mutant: a hazard of a category already met replaces the ones collected
mapInsert_overwrites(map, h) ==
    IF \E i \in DOMAIN map : map[i].title = h.category
    THEN LET i == CHOOSE i \in DOMAIN map : map[i].title = h.category
         IN  [map EXCEPT ![i].data = <<h>>]
    ELSE Append(map, [title |-> h.category, data |-> <<h>>])

\* const arr = map.get(h.category) ?? []; arr.push(h); map.set(h.category, arr):
\* a Map keeps its keys in the order of their first insertion
mapInsert(map, h) ==
    IF \E i \in DOMAIN map : map[i].title = h.category
    THEN LET i == CHOOSE i \in DOMAIN map : map[i].title = h.category
         IN  [map EXCEPT ![i].data = Append(@, h)]
    ELSE Append(map, [title |-> h.category, data |-> <<h>>])

\* for (const h of hazards) { ... }
RECURSIVE groupByCategory(_, _)
groupByCategory(list, map) ==
    IF Len(list) = 0 THEN map
    ELSE groupByCategory(Tail(list), mapInsert(map, Head(list)))

\* place of an entry in a sorted list: after every entry that does not
\* compare greater (the sort is stable)
RECURSIVE sortInsert(_, _)
sortInsert(sorted, e) ==
    IF Len(sorted) = 0 THEN <<e>>
    ELSE IF localeCompare(e.title, Head(sorted).title) < 0 THEN <<e>> \o sorted
    ELSE <<Head(sorted)>> \o sortInsert(Tail(sorted), e)

RECURSIVE sortFrom(_, _)
sortFrom(entries, sorted) ==
    IF Len(entries) = 0 THEN sorted
    ELSE sortFrom(Tail(entries), sortInsert(sorted, Head(entries)))

\* mutant: the entries are left in the order of the Map
sortEntries_unsorted(entries) == entries

\* Array.from(map.entries()).sort((a, b) => a[0].localeCompare(b[0]))
sortEntries(entries) == sortFrom(entries, <<>>)

\* const sections = useMemo(...) of the analyze screen
sections(list) ==
    IF Len(list) = 0 THEN <<>>
    ELSE sortEntries(groupByCategory(list, <<>>))

\* const hazardSections = useMemo(...) of the detail screen
hazardSections(list) ==
    IF Len(list) = 0 THEN <<>>
    ELSE sortEntries(groupByCategory(list, <<>>))

\* the memo before the first render
NotRendered == << [title |-> Null, data |-> <<>>] >>

\* the analyze screen renders the result: sections is computed
render_sections ==
    /\ memoSections = NotRendered
    /\ memoSections' = sections(hazards)
    /\ UNCHANGED <<hazards, memoHazardSections, riskScore, detailColor, cardColor>>
    /\ UNCHANGED <<screenVars, runVars, refVars, acqVars, insVars, detVars>>

\* the detail screen renders the inspection: hazardSections is computed
render_hazardSections ==
    /\ memoHazardSections = NotRendered
    /\ memoHazardSections' = hazardSections(hazards)
    /\ UNCHANGED <<hazards, memoSections, riskScore, detailColor, cardColor>>
    /\ UNCHANGED <<screenVars, runVars, refVars, acqVars, insVars, detVars>>

\* the scale of a risk score: suffix="/100"
MaxScore == 100

\* getRiskScoreColor of the detail screen
getRiskScoreColor(score) ==
    IF score >= 80 THEN "#dc2626"
    ELSE IF score >= 60 THEN "#ea580c"
    ELSE IF score >= 40 THEN "#ca8a04"
    ELSE "#16a34a"

\* getRiskScoreColor of InspectionCard: if (!score) return colors.textTertiary
InspectionCard_getRiskScoreColor(score) ==
    IF score = 0 THEN "colors.textTertiary"
    ELSE IF score >= 80 THEN "colors.error"
    ELSE IF score >= 60 THEN "#ea580c"
    ELSE IF score >= 40 THEN "colors.warning"
    ELSE "colors.success"

\* the detail screen renders the score of the analysis
render_detailScore ==
    /\ detailColor = Null
    /\ detailColor' = getRiskScoreColor(riskScore)
    /\ UNCHANGED <<hazards, memoSections, memoHazardSections, riskScore, cardColor>>
    /\ UNCHANGED <<screenVars, runVars, refVars, acqVars, insVars, detVars>>

\* an inspection card renders the score of its inspection
render_cardScore ==
    /\ cardColor = Null
    /\ cardColor' = InspectionCard_getRiskScoreColor(riskScore)
    /\ UNCHANGED <<hazards, memoSections, memoHazardSections, riskScore, detailColor>>
    /\ UNCHANGED <<screenVars, runVars, refVars, acqVars, insVars, detVars>>

(***************************************************************************)
(* Specifications of the analyze screen.                                    *)
(***************************************************************************)
\* the screens after construction, nothing acquired
InitIdle ==
    /\ session = Null
    /\ imageUri = Null
    /\ imageBase64 = NoB64
    /\ mimeType = "image/jpeg"
    /\ uploading = FALSE
    /\ analyzing = FALSE
    /\ error = Null
    /\ result = Null
    /\ listLoading = FALSE
    /\ recent = EmptyList
    /\ alert = AlertNone
    /\ runPc = [r \in Runs |-> "idle"]
    /\ runSess = [r \in Runs |-> Null]
    /\ runImg = [r \in Runs |-> NoB64]
    /\ runUrl = [r \in Runs |-> Null]
    /\ runReq = [r \in Runs |-> NoReq]
    /\ runUploadHeaders = [r \in Runs |-> Null]
    /\ refPc = [k \in Refreshes |-> "idle"]
    /\ refReq = [k \in Refreshes |-> NoReq]
    /\ refOrder = <<>>
    /\ acqPc = [q \in Acqs |-> "idle"]
    /\ acqAsset = [q \in Acqs |-> NoAsset]
    /\ insMounted = FALSE
    /\ insLoading = TRUE
    /\ insRefreshing = FALSE
    /\ insError = Null
    /\ inspections = EmptyList
    /\ insPc = [f \in Fetches |-> "idle"]
    /\ insReq = [f \in Fetches |-> NoReq]
    /\ detMounted = FALSE
    /\ detLoading = TRUE
    /\ detRefreshing = FALSE
    /\ detError = Null
    /\ inspectionData = NoData
    /\ detPc = [d \in Details |-> "idle"]
    /\ detResp = [d \in Details |-> NoResp]
    /\ srvStatus = "pending"

\* no analysis is being presented
NoAggregate ==
    /\ hazards = <<>>
    /\ memoSections = NotRendered
    /\ memoHazardSections = NotRendered
    /\ riskScore = 0
    /\ detailColor = Null
    /\ cardColor = Null

Init == InitIdle /\ refRecorded = FALSE /\ NoAggregate

\* everything but the invocation of analyze
Background ==
    \/ sessionAvailable
    \/ sessionLost
    \/ handleTakePhoto
    \/ handlePickFromGallery
    \/ \E q \in Acqs : acquire_permission(q)
    \/ \E q \in Acqs, res \in LaunchResults : acquire_launch(q, res)
    \/ \E q \in Acqs, out \in CompressOutcomes : acquire_compress(q, out)
    \/ \E r \in Runs, outcome \in TokenOutcomes : analyze_uploadHeaders(r, outcome)
    \/ \E r \in Runs, resp \in UploadResponses : analyze_uploadResponse(r, resp)
    \/ \E r \in Runs, outcome \in TokenOutcomes : analyze_analyzeHeaders(r, outcome)
    \/ \E r \in Runs, resp \in AnalyzeResponses : analyze_analyzeResponse(r, resp)
    \/ \E k \in Refreshes, outcome \in TokenOutcomes : fetchRecent_headers(k, outcome)
    \/ \E k \in Refreshes, resp \in ListResponses : fetchRecent_response(k, resp)

\* the screen as its user drives it
Next ==
    \/ Background
    \/ pressAnalyze

Spec == Init /\ [][Next]_vars

(***************************************************************************)
(* Specification of the two history caches: the analyze screen holding a    *)
(* picked picture, and the list screen mounted beside it in the tab bar.    *)
(***************************************************************************)
HeldAsset == CHOOSE a \in Assets : a.name = "a"

\* the screens after construction and the pick of a picture
InitHeld ==
    /\ session = Null
    /\ imageUri = HeldAsset.uri
    /\ imageBase64 = HeldAsset.base64
    /\ mimeType = assetMime(HeldAsset)
    /\ uploading = FALSE
    /\ analyzing = FALSE
    /\ error = Null
    /\ result = Null
    /\ listLoading = FALSE
    /\ recent = EmptyList
    /\ alert = AlertNone
    /\ runPc = [r \in Runs |-> "idle"]
    /\ runSess = [r \in Runs |-> Null]
    /\ runImg = [r \in Runs |-> NoB64]
    /\ runUrl = [r \in Runs |-> Null]
    /\ runReq = [r \in Runs |-> NoReq]
    /\ runUploadHeaders = [r \in Runs |-> Null]
    /\ refPc = [k \in Refreshes |-> "idle"]
    /\ refReq = [k \in Refreshes |-> NoReq]
    /\ refOrder = <<>>
    /\ acqPc = [q \in Acqs |-> "idle"]
    /\ acqAsset = [q \in Acqs |-> NoAsset]
    /\ insLoading = TRUE
    /\ insRefreshing = FALSE
    /\ insError = Null
    /\ inspections = EmptyList
    /\ insPc = [f \in Fetches |-> "idle"]
    /\ insReq = [f \in Fetches |-> NoReq]
    /\ detMounted = FALSE
    /\ detLoading = TRUE
    /\ detRefreshing = FALSE
    /\ detError = Null
    /\ inspectionData = NoData
    /\ detPc = [d \in Details |-> "idle"]
    /\ detResp = [d \in Details |-> NoResp]
    /\ srvStatus = "pending"

\* the list screen is mounted beside the analyze screen
InitHistory == InitHeld /\ insMounted = TRUE /\ refRecorded = FALSE /\ NoAggregate

\* the analyze screen alone, the list screen not yet opened
InitPicked == InitHeld /\ insMounted = FALSE /\ refRecorded = FALSE /\ NoAggregate

\* the screen, with or without a picked picture, with analyze() invoked
\* directly
InitCall == Init \/ InitPicked

NextCall ==
    \/ sessionAvailable
    \/ sessionLost
    \/ callAnalyze
    \/ \E r \in Runs, outcome \in TokenOutcomes : analyze_uploadHeaders(r, outcome)
    \/ \E r \in Runs, resp \in UploadResponses : analyze_uploadResponse(r, resp)
    \/ \E r \in Runs, outcome \in TokenOutcomes : analyze_analyzeHeaders(r, outcome)
    \/ \E r \in Runs, resp \in AnalyzeResponses : analyze_analyzeResponse(r, resp)
    \/ \E k \in Refreshes, outcome \in TokenOutcomes : fetchRecent_headers(k, outcome)
    \/ \E k \in Refreshes, resp \in ListResponses : fetchRecent_response(k, resp)

SpecCall == InitCall /\ [][NextCall]_vars

NextHistory ==
    \/ sessionAvailable
    \/ sessionLost
    \/ pressAnalyze
    \/ \E r \in Runs, outcome \in TokenOutcomes : analyze_uploadHeaders(r, outcome)
    \/ \E r \in Runs, resp \in UploadResponses : analyze_uploadResponse(r, resp)
    \/ \E r \in Runs, outcome \in TokenOutcomes : analyze_analyzeHeaders(r, outcome)
    \/ \E r \in Runs, resp \in AnalyzeResponses : analyze_analyzeResponse(r, resp)
    \/ \E k \in Refreshes, outcome \in TokenOutcomes : fetchRecent_headers(k, outcome)
    \/ \E k \in Refreshes, resp \in ListResponses : fetchRecent_response(k, resp)
    \/ ins_handleRefresh
    \/ \E f \in Fetches, outcome \in TokenOutcomes : fetchInspections_headers(f, outcome)
    \/ \E f \in Fetches, resp \in ListResponses : fetchInspections_response(f, resp)

SpecHistory == InitHistory /\ [][NextHistory]_vars

(***************************************************************************)
(* Specification of the detail screen: it is opened on one inspection,       *)
(* which the remote service processes meanwhile.                             *)
(***************************************************************************)
NextDetail ==
    \/ sessionAvailable
    \/ sessionLost
    \/ detMount
    \/ server_progress
    \/ \E k \in Refreshes, outcome \in TokenOutcomes : fetchRecent_headers(k, outcome)
    \/ \E k \in Refreshes, resp \in ListResponses : fetchRecent_response(k, resp)
    \/ \E d \in Details, outcome \in TokenOutcomes : fetchInspection_headers(d, outcome)
    \/ \E d \in Details, resp \in AllDetailResponses : fetchInspection_served(d, resp)
    \/ \E d \in Details : fetchInspection_response(d)
    \/ det_handleRefresh
    \/ det_retry

SpecDetail == Init /\ [][NextDetail]_vars

(***************************************************************************)
(* Specification of the tokens of one pipeline: the analyze screen holding   *)
(* a picked picture, with a session whose getToken() may resolve to a        *)
(* different token on every call.                                            *)
(***************************************************************************)
RotatingTokens == {"tok", "tok2"}
RotatingTokenOutcomes == RotatingTokens \cup {Null, "throw"}

NextTokens ==
    \/ sessionAvailable
    \/ sessionLost
    \/ pressAnalyze
    \/ \E r \in Runs, outcome \in RotatingTokenOutcomes : analyze_uploadHeaders(r, outcome)
    \/ \E r \in Runs, resp \in UploadResponses : analyze_uploadResponse(r, resp)
    \/ \E r \in Runs, outcome \in RotatingTokenOutcomes : analyze_analyzeHeaders(r, outcome)
    \/ \E r \in Runs, resp \in AnalyzeResponses : analyze_analyzeResponse(r, resp)
    \/ \E k \in Refreshes, outcome \in TokenOutcomes : fetchRecent_headers(k, outcome)
    \/ \E k \in Refreshes, resp \in ListResponses : fetchRecent_response(k, resp)

SpecTokens == InitPicked /\ [][NextTokens]_vars

(***************************************************************************)
(* Specification of the progress of a run: the analyze screen holding a      *)
(* picked picture, where every token retrieval and every request that is     *)
(* awaited eventually resolves or rejects. The session's coming and going    *)
(* and the user's presses are not owed.                                      *)
(***************************************************************************)
NextLive ==
    \/ sessionAvailable
    \/ sessionLost
    \/ pressAnalyze
    \/ \E r \in Runs, outcome \in TokenOutcomes : analyze_uploadHeaders(r, outcome)
    \/ \E r \in Runs, resp \in UploadResponses : analyze_uploadResponse(r, resp)
    \/ \E r \in Runs, outcome \in TokenOutcomes : analyze_analyzeHeaders(r, outcome)
    \/ \E r \in Runs, resp \in AnalyzeResponses : analyze_analyzeResponse(r, resp)
    \/ \E k \in Refreshes, outcome \in TokenOutcomes : fetchRecent_headers(k, outcome)
    \/ \E k \in Refreshes, resp \in ListResponses : fetchRecent_response(k, resp)

AwaitsReturn ==
    /\ WF_vars(\E r \in Runs, outcome \in TokenOutcomes : analyze_uploadHeaders(r, outcome))
    /\ WF_vars(\E r \in Runs, resp \in UploadResponses : analyze_uploadResponse(r, resp))
    /\ WF_vars(\E r \in Runs, outcome \in TokenOutcomes : analyze_analyzeHeaders(r, outcome))
    /\ WF_vars(\E r \in Runs, resp \in AnalyzeResponses : analyze_analyzeResponse(r, resp))
    /\ WF_vars(\E k \in Refreshes, outcome \in TokenOutcomes : fetchRecent_headers(k, outcome))
    /\ WF_vars(\E k \in Refreshes, resp \in ListResponses : fetchRecent_response(k, resp))

SpecLive == InitPicked /\ [][NextLive]_vars /\ AwaitsReturn

(***************************************************************************)
(* Specification of the progress of the list screen: it is mounted beside    *)
(* the analyze screen, and every token retrieval and list request that is    *)
(* awaited eventually resolves or rejects. Whether a session ever becomes    *)
(* available is not owed.                                                    *)
(***************************************************************************)
NextListLive ==
    \/ sessionAvailable
    \/ sessionLost
    \/ ins_handleRefresh
    \/ \E f \in Fetches, outcome \in TokenOutcomes : fetchInspections_headers(f, outcome)
    \/ \E f \in Fetches, resp \in ListResponses : fetchInspections_response(f, resp)
    \/ \E k \in Refreshes, outcome \in TokenOutcomes : fetchRecent_headers(k, outcome)
    \/ \E k \in Refreshes, resp \in ListResponses : fetchRecent_response(k, resp)

ListAwaitsReturn ==
    /\ WF_vars(\E f \in Fetches, outcome \in TokenOutcomes : fetchInspections_headers(f, outcome))
    /\ WF_vars(\E f \in Fetches, resp \in ListResponses : fetchInspections_response(f, resp))
    /\ WF_vars(\E k \in Refreshes, outcome \in TokenOutcomes : fetchRecent_headers(k, outcome))
    /\ WF_vars(\E k \in Refreshes, resp \in ListResponses : fetchRecent_response(k, resp))

SpecListLive == InitHistory /\ [][NextListLive]_vars /\ ListAwaitsReturn

(***************************************************************************)
(* Specification of the order of the history refreshes: the analyze screen  *)
(* holding a picked picture, with the order in which the activations of     *)
(* fetchRecent started recorded.                                            *)
(***************************************************************************)
InitOrder == InitHeld /\ insMounted = FALSE /\ refRecorded = TRUE /\ NoAggregate

SpecOrder == InitOrder /\ [][NextLive]_vars

(***************************************************************************)
(* Specification of the grouping: an analysis with any list of hazards is   *)
(* rendered by the analyze screen and by the detail screen.                 *)
(***************************************************************************)
InitGroup ==
    /\ InitIdle
    /\ refRecorded = FALSE
    /\ hazards \in HazardLists
    /\ memoSections = NotRendered
    /\ memoHazardSections = NotRendered
    /\ riskScore = 0
    /\ detailColor = Null
    /\ cardColor = Null

NextGroup ==
    \/ render_sections
    \/ render_hazardSections

SpecGroup == InitGroup /\ [][NextGroup]_vars

(***************************************************************************)
(* Specification of the risk score: an inspection with any score is         *)
(* rendered by the detail screen and by an inspection card.                 *)
(***************************************************************************)
InitRisk ==
    /\ InitIdle
    /\ refRecorded = FALSE
    /\ hazards = <<>>
    /\ memoSections = NotRendered
    /\ memoHazardSections = NotRendered
    /\ riskScore \in 0..MaxScore
    /\ detailColor = Null
    /\ cardColor = Null

NextRisk ==
    \/ render_detailScore
    \/ render_cardScore

SpecRisk == InitRisk /\ [][NextRisk]_vars

(***************************************************************************)
(* The error taxonomy of the specification, as the messages the code shows. *)
(***************************************************************************)
ErrorKind(message) ==
    CASE message = ErrAuthRequired -> "AuthRequired"
      [] message = ErrAuthFailed -> "AuthRequired"
      [] message = ErrTooLarge -> "PayloadTooLarge"
      [] message = ErrMissingUrl -> "UnexpectedResponse"
      [] message = ErrUnexpectedAnalyze -> "UnexpectedResponse"
      [] message = ErrNetwork -> "NetworkError"
      [] message \in {UploadFailed(st, t) : st \in UploadStatuses, t \in Bodies} -> "ServerError"
      [] message \in {AnalyzeFailed(st, t) : st \in AnalyzeStatuses, t \in Bodies} -> "ServerError"
      [] message = ErrDetNoSession -> "AuthRequired"
      [] message = ErrDetNoToken -> "AuthRequired"
      [] message = ErrNotFound -> "NotFound"
      [] message = ErrInvalidFormat -> "UnexpectedResponse"
      [] message \in {DetLoadFailed(st, t) : st \in DetailStatuses, t \in Bodies} -> "ServerError"
      [] message \in {InsFetchFailed(st) : st \in ListStatuses} -> "ServerError"
      [] OTHER -> "Other"

\* activation r is between its entry and its return
InFlight(r) == runPc[r] # "idle"
\* no activation and no request of the analyze screen changes in the step
NoNetworkCall == UNCHANGED <<runPc, runReq, refPc, refReq>>

(***************************************************************************)
(* C1. At most one run of analyze is in flight at any time, and so at most   *)
(* one upload or analyze request: the button that invokes analyze is         *)
(* disabled while the pipeline is Uploading or Analyzing.                    *)
(***************************************************************************)
C1_AtMostOneRun ==
    /\ Cardinality({r \in Runs : InFlight(r)}) <= 1
    /\ Cardinality({r \in Runs : runReq[r].ep # "none"}) <= 1
    /\ (\E r \in Runs : InFlight(r)) => (disabled /\ (uploading \/ analyzing))

\* a run is awaiting the analyze response while the screen holds an image and
\* a session: the button is shown, and disabled by the progress flag alone
C1_Witness ==
    /\ \E r \in Runs : runPc[r] = "analyzeFetch"
    /\ rendered
    /\ hasImage
    /\ analyzing
    /\ disabled

(***************************************************************************)
(* C2. A run is in its analyze stage only after its upload answered with a   *)
(* URL, the pipeline shows Analyzing only for such a run, and the analyze    *)
(* request carries exactly the URL the upload returned for the uploaded      *)
(* payload.                                                                  *)
(***************************************************************************)
C2_AnalyzeAfterUpload ==
    /\ \A r \in Runs :
          runPc[r] \in {"analyzeHeaders", "analyzeFetch"} =>
              /\ runUrl[r] # Null
              /\ runUrl[r] = UrlOf(runImg[r])
    /\ \A r \in Runs :
          runReq[r].ep = "analyze" =>
              /\ runPc[r] = "analyzeFetch"
              /\ runReq[r].imageUrl = runUrl[r]
    /\ analyzing => \E r \in Runs : runPc[r] \in {"analyzeHeaders", "analyzeFetch"}
    /\ \A r \in Runs : runPc[r] \in {"uploadHeaders", "uploadFetch"} => ~analyzing

\* an analyze request is in flight and carries the URL of the held picture
C2_Witness ==
    \E r \in Runs :
        /\ runReq[r].ep = "analyze"
        /\ runReq[r].imageUrl = UrlOf(imageBase64)
        /\ analyzing
        /\ ~uploading

(***************************************************************************)
(* C3. analyze invoked with no image held shows the "No image" alert and     *)
(* starts nothing: no activation is suspended, no request is sent and the    *)
(* pipeline's slots are untouched.                                           *)
(***************************************************************************)
C3_NoImage ==
    [][(~hasImage /\ callAnalyze) =>
          /\ alert' = AlertNoImage
          /\ NoNetworkCall
          /\ UNCHANGED <<error, result, uploading, analyzing, listLoading>>]_vars

\* analyze was invoked with no image: its alert is the last one shown
C3_Witness ==
    /\ alert = AlertNoImage
    /\ ~hasImage
    /\ \A r \in Runs : ~InFlight(r) /\ runReq[r] = NoReq

(***************************************************************************)
(* C4. As claimed: analyze invoked with no session always shows the          *)
(* "Authentication Required" alert and sends nothing, image or not.          *)
(***************************************************************************)
C4_Original ==
    [][(session = Null /\ callAnalyze) =>
          /\ alert' = AlertAuthRequired
          /\ NoNetworkCall]_vars

(***************************************************************************)
(* C4, amended. analyze invoked with no session sends nothing; it shows the  *)
(* "Authentication Required" alert when an image is held, and the "No image" *)
(* alert when none is, the image being checked first.                        *)
(***************************************************************************)
C4_NoSession ==
    [][(session = Null /\ callAnalyze) =>
          /\ alert' = (IF hasImage THEN AlertAuthRequired ELSE AlertNoImage)
          /\ NoNetworkCall
          /\ UNCHANGED <<error, result, uploading, analyzing, listLoading>>]_vars

\* analyze was invoked with an image and no session
C4_Witness ==
    /\ alert = AlertAuthRequired
    /\ session = Null
    /\ hasImage
    /\ \A r \in Runs : ~InFlight(r) /\ runReq[r] = NoReq

(***************************************************************************)
(* C5. Every failure of the upload (fetch rejects, a status other than 2xx,  *)
(* a body that is not JSON or lacks ok or url) ends the run: the error slot  *)
(* holds the message, both flags are cleared and no analyze request is sent. *)
(* The message is AuthRequired for 401, PayloadTooLarge for 413, ServerError *)
(* for any other status, UnexpectedResponse for a JSON body lacking ok/url. *)
(***************************************************************************)
UploadFails(resp) ==
    resp.threw \/ ~RespOk(resp.status) \/ ~resp.json \/ ~resp.ok \/ ~resp.url

C5_MappedKind(resp) ==
    IF resp.threw THEN "NetworkError"
    ELSE IF resp.status = 401 THEN "AuthRequired"
    ELSE IF resp.status = 413 THEN "PayloadTooLarge"
    ELSE IF ~RespOk(resp.status) THEN "ServerError"
    ELSE IF ~resp.json THEN "Other"
    ELSE "UnexpectedResponse"

C5_UploadFailure ==
    [][/\ \A r \in Runs, resp \in UploadResponses :
             (UploadFails(resp) /\ analyze_uploadResponse(r, resp)) =>
                 /\ error' # Null
                 /\ ErrorKind(error') = C5_MappedKind(resp)
                 /\ ~uploading'
                 /\ ~analyzing'
                 /\ ~InFlight(r)'
                 /\ \A q \in Runs : runReq'[q].ep # "analyze"
       /\ \A r \in Runs, outcome \in {Null, "throw"} :
             analyze_uploadHeaders(r, outcome) =>
                 /\ ErrorKind(error') = "AuthRequired"
                 /\ ~uploading'
                 /\ ~analyzing'
                 /\ ~InFlight(r)'
                 /\ \A q \in Runs : runReq'[q].ep = "none"]_vars

\* scenario A: the upload answered 413
C5_Witness ==
    /\ error = ErrTooLarge
    /\ ~uploading
    /\ ~analyzing
    /\ result = Null
    /\ \A r \in Runs : ~InFlight(r)

(***************************************************************************)
(* C6. A 2xx analyze response without an analysis payload ends the run in    *)
(* Failed: no result is stored, the error slot is set, both flags are        *)
(* cleared and the activation has returned. When the body is JSON the error  *)
(* is UnexpectedResponse.                                                    *)
(***************************************************************************)
C6_NoAnalysisPayload ==
    [][\A r \in Runs, resp \in AnalyzeResponses :
          (/\ ~resp.threw
           /\ RespOk(resp.status)
           /\ ~(resp.json /\ resp.analysis)
           /\ analyze_analyzeResponse(r, resp)) =>
              /\ result' = Null
              /\ error' # Null
              /\ (resp.json => ErrorKind(error') = "UnexpectedResponse")
              /\ ~uploading'
              /\ ~analyzing'
              /\ ~InFlight(r)']_vars

\* scenario D: the analyze response had no analysis
C6_Witness ==
    /\ error = ErrUnexpectedAnalyze
    /\ result = Null
    /\ ~analyzing
    /\ \A r \in Runs : ~InFlight(r)

(***************************************************************************)
(* C7. A step of the pipeline starts a history refresh only when it stores   *)
(* the result of a successful run; a step that ends a run in Failed starts   *)
(* none and sends no list request.                                           *)
(***************************************************************************)
C7_RefreshOnlyOnCompleted ==
    [][(runPc' # runPc /\ (refPc' # refPc \/ refReq' # refReq \/ listLoading' # listLoading)) =>
          /\ result' # Null
          /\ error' = Null
          /\ ~uploading'
          /\ ~analyzing'
          /\ \E r \in Runs : runPc[r] = "analyzeFetch" /\ ~InFlight(r)']_vars

\* scenario A with a session and no refresh under way
C7_Witness ==
    /\ error = ErrTooLarge
    /\ session # Null
    /\ ~listLoading
    /\ \A k \in Refreshes : refPc[k] = "idle"
    /\ \A r \in Runs : ~InFlight(r)

(***************************************************************************)
(* C8. No step of a history refresh, failing or not, changes the result, the *)
(* error slot or the progress flags of the pipeline.                         *)
(***************************************************************************)
C8_RefreshFrame ==
    [][(\/ \E k \in Refreshes, outcome \in TokenOutcomes : fetchRecent_headers(k, outcome)
        \/ \E k \in Refreshes, resp \in ListResponses : fetchRecent_response(k, resp)) =>
          UNCHANGED <<result, error, uploading, analyzing>>]_vars

\* a run completed and every refresh has ended without storing a list
C8_Witness ==
    /\ result # Null
    /\ error = Null
    /\ recent = EmptyList
    /\ ~listLoading
    /\ ~uploading
    /\ ~analyzing
    /\ \A k \in Refreshes : refPc[k] = "idle"

(***************************************************************************)
(* C9. As claimed: a failing refresh of either history cache (fetchRecent    *)
(* of the analyze screen, fetchInspections of the list screen) leaves the    *)
(* held list as it was and shows the user no error.                          *)
(***************************************************************************)
ListFails(resp) ==
    resp.threw \/ ~RespOk(resp.status) \/ ~resp.json \/ ~resp.ok

C9_RecentFrame ==
    /\ \A k \in Refreshes, resp \in ListResponses :
          (ListFails(resp) /\ fetchRecent_response(k, resp)) =>
              /\ recent' = recent
              /\ UNCHANGED <<error, alert, result>>
    /\ \A k \in Refreshes, outcome \in {Null, "throw"} :
          fetchRecent_headers(k, outcome) =>
              /\ recent' = recent
              /\ refReq' = refReq
              /\ UNCHANGED <<error, alert, result>>

C9_Original ==
    [][/\ C9_RecentFrame
       /\ \A f \in Fetches, resp \in ListResponses :
             (ListFails(resp) /\ fetchInspections_response(f, resp)) =>
                 /\ inspections' = inspections
                 /\ insError' = Null]_vars

(***************************************************************************)
(* C9, amended. A failing refresh leaves the held list as it was. The        *)
(* analyze screen (fetchRecent) shows no error for it; the list screen        *)
(* (fetchInspections) stores the failure's message in its error slot, which  *)
(* it shows in place of the list.                                            *)
(***************************************************************************)
C9_RefreshFailure ==
    [][/\ C9_RecentFrame
       /\ \A f \in Fetches, resp \in ListResponses :
             (ListFails(resp) /\ fetchInspections_response(f, resp)) =>
                 /\ inspections' = inspections
                 /\ insError' # Null
                 /\ insError' \in {ErrNetwork, ErrJsonParse, ErrNullOk, ErrInvalidFormat}
                                  \cup {InsFetchFailed(st) : st \in ListStatuses}
                 /\ ~insLoading'
                 /\ ~insRefreshing']_vars

\* the list screen holds a page and shows a failure that came after it; the
\* analyze screen completed a run and every refresh of its panel has ended
\* without storing a page
C9_Witness ==
    /\ insError # Null
    /\ inspections \in Lists
    /\ result # Null
    /\ recent = EmptyList
    /\ error = Null
    /\ \A k \in Refreshes : refPc[k] = "idle"
    /\ \A f \in Fetches : insPc[f] = "idle"

(***************************************************************************)
(* C10. As claimed: every request in flight to the upload, analyze and list  *)
(* endpoints carries an Authorization bearer token.                          *)
(***************************************************************************)
C10_AllRequestsAuthorized ==
    /\ \A r \in Runs : runReq[r].ep # "none" => runReq[r].auth \in Tokens
    /\ \A k \in Refreshes : refReq[k].ep # "none" => refReq[k].auth \in Tokens
    /\ \A f \in Fetches : insReq[f].ep # "none" => insReq[f].auth \in Tokens

(***************************************************************************)
(* C11. As claimed: a 401 answer of any endpoint (upload, analyze,           *)
(* fetch-one, list) is reported to the user as AuthRequired, never as a      *)
(* generic server error.                                                     *)
(***************************************************************************)
C11_Upload401 ==
    \A r \in Runs, resp \in UploadResponses :
        (~resp.threw /\ resp.status = 401 /\ analyze_uploadResponse(r, resp)) =>
            ErrorKind(error') = "AuthRequired"

C11_Analyze401 ==
    \A r \in Runs, resp \in AnalyzeResponses :
        (~resp.threw /\ resp.status = 401 /\ analyze_analyzeResponse(r, resp)) =>
            ErrorKind(error') = "AuthRequired"

C11_FetchOne401 ==
    \A d \in Details :
        (~detResp[d].threw /\ detResp[d].status = 401 /\ fetchInspection_response(d)) =>
            ErrorKind(detError') = "AuthRequired"

C11_List401 ==
    \A f \in Fetches, resp \in ListResponses :
        (~resp.threw /\ resp.status = 401 /\ fetchInspections_response(f, resp)) =>
            ErrorKind(insError') = "AuthRequired"

C11_Every401IsAuthRequired ==
    [][C11_Upload401 /\ C11_Analyze401 /\ C11_FetchOne401 /\ C11_List401]_vars

(***************************************************************************)
(* C12. As claimed: the processingStatus the detail view holds never moves   *)
(* to an earlier state of pending -> processing -> {completed, failed},      *)
(* whatever the order in which the fetches of the view are answered.         *)
(***************************************************************************)
StatusRank(st) ==
    CASE st = "pending" -> 0
      [] st = "processing" -> 1
      [] OTHER -> 2

C12_StatusNeverRegresses ==
    [][(inspectionData # NoData /\ inspectionData' # NoData) =>
          /\ StatusRank(inspectionData'.processingStatus)
                 >= StatusRank(inspectionData.processingStatus)
          /\ StatusRank(inspectionData.processingStatus) = 2 =>
                 inspectionData'.processingStatus = inspectionData.processingStatus]_vars

(***************************************************************************)
(* C13. Every failed fetch of the inspection (fetch rejects, 401, 404, any   *)
(* other status, a body that is not JSON or lacks ok, no token) leaves the   *)
(* inspection the view holds as it was and sets the error: NotFound for      *)
(* 404, AuthRequired for 401 and for a missing token, ServerError for the    *)
(* other statuses.                                                           *)
(***************************************************************************)
DetailFails(resp) ==
    resp.threw \/ ~RespOk(resp.status) \/ ~resp.json \/ ~resp.ok

C13_MappedKind(resp) ==
    IF resp.threw THEN "NetworkError"
    ELSE IF resp.status = 401 THEN "AuthRequired"
    ELSE IF resp.status = 404 THEN "NotFound"
    ELSE IF ~RespOk(resp.status) THEN "ServerError"
    ELSE IF ~resp.json \/ resp.null THEN "Other"
    ELSE "UnexpectedResponse"

C13_FailedFetchFrame ==
    [][/\ \A d \in Details :
             (DetailFails(detResp[d]) /\ fetchInspection_response(d)) =>
                 /\ inspectionData' = inspectionData
                 /\ detError' # Null
                 /\ ErrorKind(detError') = C13_MappedKind(detResp[d])
                 /\ ~detLoading'
                 /\ ~detRefreshing'
       /\ \A d \in Details, outcome \in {Null, "throw"} :
             fetchInspection_headers(d, outcome) =>
                 /\ inspectionData' = inspectionData
                 /\ ErrorKind(detError') = "AuthRequired"]_vars

\* scenario C: the view held an inspection and a refresh was answered 404
C13_Witness ==
    /\ inspectionData # NoData
    /\ detError = ErrNotFound
    /\ ~detLoading
    /\ \A d \in Details : detPc[d] = "idle"

(***************************************************************************)
(* C14. A run asks the session for a token once before the upload and once   *)
(* more before the analyze request; each request carries the token its own   *)
(* retrieval returned, whatever the upload was sent with, and a retrieval    *)
(* that gives no token fails the run with AuthRequired and sends nothing.    *)
(***************************************************************************)
C14_FreshTokenPerStage ==
    [][/\ \A r \in Runs, outcome \in RotatingTokenOutcomes :
             analyze_uploadHeaders(r, outcome) =>
                 IF outcome \in RotatingTokens
                 THEN /\ runReq'[r].ep = "upload"
                      /\ runReq'[r].auth = outcome
                 ELSE /\ runReq'[r].ep = "none"
                      /\ ErrorKind(error') = "AuthRequired"
       /\ \A r \in Runs, outcome \in RotatingTokenOutcomes :
             analyze_analyzeHeaders(r, outcome) =>
                 IF outcome \in RotatingTokens
                 THEN /\ runReq'[r].ep = "analyze"
                      /\ runReq'[r].auth = outcome
                 ELSE /\ runReq'[r].ep = "none"
                      /\ ErrorKind(error') = "AuthRequired"]_vars

\* the analyze request is in flight with a token other than the one the
\* upload of the same run was sent with
C14_Witness ==
    \E r \in Runs :
        /\ runReq[r].ep = "analyze"
        /\ runUploadHeaders[r] \in RotatingTokens
        /\ runReq[r].auth \in RotatingTokens
        /\ runReq[r].auth # runUploadHeaders[r]

(***************************************************************************)
(* C15. As claimed: no step of a capture or pick that commits no picture     *)
(* (the handler's entry, the permission answer, the picker closing on a      *)
(* cancel or without an asset) changes the held image, the mime type, the    *)
(* result or the error.                                                      *)
(***************************************************************************)
NoResult(res) == res.canceled \/ res.asset.uri = Null

C15_Original ==
    [][(\/ acquireStart
        \/ \E q \in Acqs : acquire_permission(q)
        \/ \E q \in Acqs, res \in LaunchResults : NoResult(res) /\ acquire_launch(q, res)) =>
          UNCHANGED <<imageUri, imageBase64, mimeType, result, error>>]_vars

(***************************************************************************)
(* C15, amended. A capture or pick that ends with no result leaves the held  *)
(* image, the mime type and the result as they were; the error slot is       *)
(* cleared when the handler starts and is not touched afterwards.            *)
(***************************************************************************)
C15_CancelFrame ==
    [][/\ acquireStart =>
             /\ UNCHANGED <<imageUri, imageBase64, mimeType, result>>
             /\ error' = Null
       /\ (\/ \E q \in Acqs : acquire_permission(q)
           \/ \E q \in Acqs, res \in LaunchResults :
                 NoResult(res) /\ acquire_launch(q, res)) =>
             UNCHANGED <<imageUri, imageBase64, mimeType, result, error>>]_vars

\* a run completed, after it the user opened the picker: it may now be
\* cancelled
C15_Witness ==
    /\ \E q \in Acqs : acqPc[q] = "launch"
    /\ result # Null
    /\ hasImage
    /\ error = Null
    /\ \A r \in Runs : ~InFlight(r)

(***************************************************************************)
(* C16. As claimed: a picture whose native payload is unavailable or over    *)
(* 3,000,000 bytes is never held as it came, only as the compress transform  *)
(* returned it, and the payload held after the transform is no larger than   *)
(* the original file.                                                        *)
(***************************************************************************)
\* bytes a base64 payload decodes to
DecodedBytes(b64) == (b64.len * 3) \div 4

C16_CompressBeforeUpload ==
    [][/\ \A q \in Acqs, res \in LaunchResults :
             (/\ ~NoResult(res)
              /\ (~Truthy(res.asset.base64)
                     \/ DecodedBytes(res.asset.base64) > CompressThreshold)
              /\ acquire_launch(q, res)) =>
                 /\ UNCHANGED <<imageUri, imageBase64, mimeType>>
                 /\ acqPc'[q] = "compress"
       /\ \A q \in Acqs, out \in CompressOutcomes :
             (acquire_compress(q, out) /\ ~out.threw /\ out.len > 0) =>
                 /\ imageBase64'.len = out.len
                 /\ DecodedBytes(imageBase64') <= acqAsset[q].fileSize]_vars

(***************************************************************************)
(* C17. As claimed: the picture the compress transform produces has its      *)
(* longer side at most 1600 px, whatever the width and height of the         *)
(* original, and the mime type stored with it is image/jpeg.                 *)
(***************************************************************************)
LongerSide(img) == IF img.width >= img.height THEN img.width ELSE img.height

C17_LongerSideAtMost1600 ==
    [][\A q \in Acqs, out \in CompressOutcomes :
          (acquire_compress(q, out) /\ ~out.threw /\ out.len > 0) =>
              /\ LongerSide(manipulateAsync(acqAsset[q], MaxSide, out.len)) <= 1600
              /\ mimeType' = "image/jpeg"]_vars

(***************************************************************************)
(* C18. As claimed: when the compress transform throws or returns no         *)
(* payload, the capture or pick reports it in the error slot as an           *)
(* ImageProcessingError.                                                     *)
(***************************************************************************)
C18_CompressFailureSurfaced ==
    [][\A q \in Acqs, out \in CompressOutcomes :
          (acquire_compress(q, out) /\ (out.threw \/ out.len = 0)) =>
              /\ error' # Null
              /\ ErrorKind(error') = "ImageProcessingError"]_vars

(***************************************************************************)
(* C19. A run moves through its stages once: invocation, token, upload       *)
(* request, token, analyze request, return. Each step of an activation       *)
(* either advances it by one stage or ends it; an upload request is sent     *)
(* only by an activation that has sent none, an analyze request only by one  *)
(* whose upload succeeded, and an idle activation starts only when the user  *)
(* invokes analyze. A failure ends the activation with no request left.      *)
(***************************************************************************)
StageRank(pc) ==
    CASE pc = "idle" -> 0
      [] pc = "uploadHeaders" -> 1
      [] pc = "uploadFetch" -> 2
      [] pc = "analyzeHeaders" -> 3
      [] pc = "analyzeFetch" -> 4

C19_NoRetry ==
    [][\A r \in Runs :
          /\ runPc'[r] # runPc[r] =>
                \/ StageRank(runPc'[r]) = StageRank(runPc[r]) + 1
                \/ runPc'[r] = "idle"
          /\ (runPc[r] = "idle" /\ runPc'[r] # "idle") => pressAnalyze
          /\ (runReq'[r].ep = "upload" /\ runReq[r].ep # "upload") =>
                runPc[r] = "uploadHeaders"
          /\ (runReq'[r].ep = "analyze" /\ runReq[r].ep # "analyze") =>
                runPc[r] = "analyzeHeaders"
          /\ (runPc[r] # "idle" /\ error' # Null) =>
                /\ runPc'[r] = "idle"
                /\ runReq'[r] = NoReq
                /\ ~uploading'
                /\ ~analyzing']_vars

\* the upload was answered 500: the run has ended, nothing is in flight and
\* the button is enabled again
C19_Witness ==
    /\ error = UploadFailed(500, "boom")
    /\ \A r \in Runs : ~InFlight(r) /\ runReq[r] = NoReq
    /\ rendered
    /\ ~disabled

(***************************************************************************)
(* C20. While the pipeline is Uploading or Analyzing the result slot and     *)
(* the error slot are both empty.                                            *)
(***************************************************************************)
C20_RunStartsFresh ==
    (uploading \/ analyzing) => (result = Null /\ error = Null)

\* a run is in its upload stage while the refresh that the completion of the
\* run before it started is still in flight
C20_Witness ==
    /\ uploading
    /\ result = Null
    /\ error = Null
    /\ \E r \in Runs : runPc[r] = "uploadFetch"
    /\ \A k \in Refreshes : refPc[k] # "idle"

(***************************************************************************)
(* C21. The uploading and analyzing flags are never both true: with a run    *)
(* in its upload stage only uploading is set, in its analyze stage only      *)
(* analyzing, and with no run neither.                                       *)
(***************************************************************************)
C21_FlagsExclusive ==
    /\ ~(uploading /\ analyzing)
    /\ uploading <=> \E r \in Runs : runPc[r] \in {"uploadHeaders", "uploadFetch"}
    /\ analyzing <=> \E r \in Runs : runPc[r] \in {"analyzeHeaders", "analyzeFetch"}

\* the upload has just succeeded: the run waits for the token of its analyze
\* request
C21_Witness ==
    /\ analyzing
    /\ ~uploading
    /\ \E r \in Runs : runPc[r] = "analyzeHeaders" /\ runUrl[r] # Null

(***************************************************************************)
(* C22. When every awaited token retrieval and request eventually resolves   *)
(* or rejects, a run that has entered Uploading eventually ends: both flags  *)
(* are cleared, no activation is left, and the result or a non-empty error   *)
(* message is set.                                                           *)
(***************************************************************************)
C22_RunTerminates ==
    uploading ~> (/\ ~uploading
                  /\ ~analyzing
                  /\ \A r \in Runs : ~InFlight(r)
                  /\ \/ result # Null
                     \/ error # Null /\ error # "")

\* a run failed on a rejected fetch; the screen is back to rest
C22_Witness ==
    /\ error = ErrNetwork
    /\ result = Null
    /\ ~uploading
    /\ ~analyzing
    /\ \A r \in Runs : ~InFlight(r)

(***************************************************************************)
(* C26. As claimed: a result on screen is always the analysis of the image   *)
(* that is held, also when a picture is captured or picked while a run is    *)
(* Uploading or Analyzing.                                                   *)
(***************************************************************************)
C26_ResultOfHeldImage ==
    result # Null => (hasImage /\ result = AnalysisOf(UrlOf(imageBase64)))

(***************************************************************************)
(* C27. The result slot and the error slot are never both non-empty.         *)
(***************************************************************************)
C27_ResultErrorExclusive ==
    ~(result # Null /\ error # Null)

\* a run completed, the next one on the same picture failed: the error is
\* shown and the earlier result is gone, while the refresh the first run
\* started is still in flight
C27_Witness ==
    /\ error # Null
    /\ result = Null
    /\ hasImage
    /\ \A r \in Runs : ~InFlight(r)
    /\ \A k \in Refreshes : refPc[k] # "idle"

(***************************************************************************)
(* C30. As claimed: a mounted list screen eventually leaves its loading      *)
(* state, with or without a session.                                         *)
(***************************************************************************)
C30_LoadingEnds ==
    insMounted ~> ~insLoading

(***************************************************************************)
(* C29. The detail view shows the 'Analysis In Progress' card, with its    *)
(* "Refresh Status" action, only while the held inspection is pending or   *)
(* processing; a completed or failed inspection is never presented as in   *)
(* progress.  The service sends analysisResults exactly with a completed   *)
(* inspection, as the data model states.                                   *)
(***************************************************************************)
C29_InProgressOnlyWhenPending ==
    (detShown /\ detCard(inspectionData) = "inProgress")
        => inspectionData.processingStatus \in {"pending", "processing"}

\* a failed inspection is on screen, under its failed card
C29_Witness ==
    /\ detShown
    /\ inspectionData.processingStatus = "failed"
    /\ detCard(inspectionData) = "failed"
    /\ srvStatus = "failed"

(***************************************************************************)
(* C23. Grouping gives one section per distinct category, the sections in   *)
(* ascending lexicographic order of the category name, and the order of     *)
(* the sections is the same for every permutation of the hazard list.       *)
(***************************************************************************)
\* code unit of a letter, and the order of two words by their code units
CodeUnit(c) == IF IsUpper(c) THEN 64 + LetterRank(c) ELSE 96 + LetterRank(c)
RECURSIVE LexLess(_, _)
LexLess(a, b) ==
    IF Len(b) = 0 THEN FALSE
    ELSE IF Len(a) = 0 THEN TRUE
    ELSE LET x == CodeUnit(SubSeq(a, 1, 1))
             y == CodeUnit(SubSeq(b, 1, 1))
         IN  IF x # y THEN x < y
             ELSE LexLess(SubSeq(a, 2, Len(a)), SubSeq(b, 2, Len(b)))

CategoriesOf(list) == { list[n].category : n \in DOMAIN list }
TitlesOf(secs) == [i \in DOMAIN secs |-> secs[i].title]
Permuted(list) ==
    { [n \in DOMAIN list |-> list[p[n]]] : p \in Permutations(DOMAIN list) }

C23_Ordered(secs) ==
    /\ { secs[i].title : i \in DOMAIN secs } = CategoriesOf(hazards)
    /\ Len(secs) = Cardinality(CategoriesOf(hazards))
    /\ \A i, j \in DOMAIN secs : i < j => LexLess(secs[i].title, secs[j].title)

C23_SectionOrder ==
    /\ memoSections # NotRendered =>
          /\ C23_Ordered(memoSections)
          /\ \A list \in Permuted(hazards) : TitlesOf(sections(list)) = TitlesOf(memoSections)
    /\ memoHazardSections # NotRendered =>
          /\ C23_Ordered(memoHazardSections)
          /\ \A list \in Permuted(hazards) :
                TitlesOf(hazardSections(list)) = TitlesOf(memoHazardSections)

\* three hazards of three categories, listed in descending order, are
\* rendered by both screens
C23_Witness ==
    /\ Len(hazards) = 3
    /\ hazards[1].category = "PPE"
    /\ hazards[2].category = "Fire"
    /\ hazards[3].category = "Chemical"
    /\ TitlesOf(memoSections) = <<"Chemical", "Fire", "PPE">>
    /\ memoHazardSections = memoSections

(***************************************************************************)
(* C24. Each section holds exactly the hazards of its category, in the      *)
(* order of the source list: every hazard is in exactly one section, none   *)
(* is lost or duplicated, and no section is empty.                          *)
(***************************************************************************)
C24_Partition(secs) ==
    /\ \A i \in DOMAIN secs :
          /\ secs[i].data # <<>>
          /\ secs[i].data = SelectSeq(hazards, LAMBDA h : h.category = secs[i].title)
    /\ \A n \in DOMAIN hazards :
          Cardinality({ <<i, j>> \in (DOMAIN secs) \X (1..Len(hazards)) :
                           j \in DOMAIN secs[i].data /\ secs[i].data[j] = hazards[n] }) = 1

C24_SectionContents ==
    /\ memoSections # NotRendered => C24_Partition(memoSections)
    /\ memoHazardSections # NotRendered => C24_Partition(memoHazardSections)

\* two hazards of one category with a hazard of another between them
C24_Witness ==
    /\ Len(hazards) = 3
    /\ hazards[1].category = "Fire"
    /\ hazards[2].category = "Chemical"
    /\ hazards[3].category = "Fire"
    /\ memoSections = << [title |-> "Chemical", data |-> <<hazards[2]>>],
                         [title |-> "Fire", data |-> <<hazards[1], hazards[3]>>] >>
    /\ memoHazardSections = memoSections

(***************************************************************************)
(* C25. As claimed: a risk score of 0..100 is banded with the thresholds    *)
(* 40/60/80 (below 40 low, 40-59 moderate, 60-79 elevated, 80 and above     *)
(* severe), and the detail screen and the inspection card give the same     *)
(* band for the same score.                                                 *)
(***************************************************************************)
riskBand(score) ==
    IF score >= 80 THEN "severe"
    ELSE IF score >= 60 THEN "elevated"
    ELSE IF score >= 40 THEN "moderate"
    ELSE "low"

\* the band a color of the detail screen stands for
DetailBand(color) ==
    CASE color = "#dc2626" -> "severe"
      [] color = "#ea580c" -> "elevated"
      [] color = "#ca8a04" -> "moderate"
      [] color = "#16a34a" -> "low"
      [] OTHER -> "none"

\* the band a color of the inspection card stands for
CardBand(color) ==
    CASE color = "colors.error" -> "severe"
      [] color = "#ea580c" -> "elevated"
      [] color = "colors.warning" -> "moderate"
      [] color = "colors.success" -> "low"
      [] OTHER -> "none"

C25_SameBandEverywhere ==
    /\ riskBand(72) = "elevated"
    /\ detailColor # Null => DetailBand(detailColor) = riskBand(riskScore)
    /\ cardColor # Null => CardBand(cardColor) = riskBand(riskScore)

(***************************************************************************)
(* C28. As claimed: when history refreshes overlap, an older response       *)
(* never overwrites a newer one: a refresh stores its list only if no       *)
(* refresh started after it has already stored its own.                     *)
(***************************************************************************)
C28_LastStartedWins ==
    [][\A k \in Refreshes, resp \in ListResponses :
          (fetchRecent_response(k, resp) /\ listStored(resp))
              => \E n \in DOMAIN refOrder : refOrder[n] = k]_vars

====================================================================
